---- MODULE Spec2Model ----
(***************************************************************************)
(* Model of the EMSP backend scaffold: the token store of                  *)
(* core/auth.py (ClientAuthenticator) and the module store of              *)
(* core/crud.py (EMSPCrud).                                                *)
(*                                                                         *)
(* Both classes keep their state in class-level attributes and expose      *)
(* `async def` classmethods.  No method body suspends (the only awaits are *)
(* on get_valid_token_a / get_valid_token_c, coroutines that never yield   *)
(* to the event loop), so on the asyncio loop every call runs from entry   *)
(* to return without interleaving: one call is one action.  Concurrent     *)
(* in-flight requests are the arbitrary interleavings of these actions.    *)
(***************************************************************************)
EXTENDS Naturals, Sequences, FiniteSets, TLC

VARIABLES
    tokens_a,   \* ClientAuthenticator._valid_tokens_a, a Python list
    tokens_c,   \* ClientAuthenticator._valid_tokens_c, a Python list
    auth_ret,   \* the last completed mutating call on the authenticator
                \* and what it returned to its caller
    storage,    \* EMSPCrud._storage: storage key -> dict of id -> object
    shared,     \* the sets of two or more places of _storage whose values
                \* are one and the same dict object
    now,        \* the instant datetime.now(timezone.utc) reads
    crud_ret,   \* the last completed EMSPCrud call and its outcome
    requests,   \* the EMSPCrud calls in flight, statement by statement
                \* (kept under ConcSpec; empty where calls are whole steps)
    running,    \* the request whose handler the event loop is inside (0: none)
    serial,     \* history: the store the completed requests give when
                \* applied one after another in the order they ran
    settings,   \* config.settings, read from the environment at import
    mock_ret    \* the last completed MockCPOCrud call and its outcome

auth_vars == <<tokens_a, tokens_c, auth_ret>>
crud_vars == <<storage, shared, now, crud_ret>>
conc_vars == <<requests, running, serial>>
env_vars == <<settings, mock_ret>>
vars == <<tokens_a, tokens_c, auth_ret, storage, shared, now, crud_ret,
          requests, running, serial,
          settings, mock_ret>>

----------------------------------------------------------------------------
(* Bounds and input domains *)

\* Longest token list the model lets grow (the lists start at 3 and 4).
MaxTokens == 5

\* The Python None object; distinct from every str the model uses.
None == "<None>"

\* The whitespace-padded variant of a token, f" {valid_token} " of the unit
\* test test_token_validation_with_whitespace.
Padded(token) == " " \o token \o " "

\* Strings handed to add_token_* / remove_token_* (signature: token: str).
TokenStrings == { "emsp_token_a_12345", "cpo_token_c_abcdef", "new_token", "" }

\* Values handed to the read-only queries, which also accept None and which
\* the unit test hands a padded token.
TokenQueries == TokenStrings \cup { None, Padded("emsp_token_a_12345") }

----------------------------------------------------------------------------
(* Python list primitives *)

\* x in list
Contains(list, x) == \E i \in 1..Len(list) : list[i] = x

\* the set of elements of a list
Range(list) == { list[i] : i \in 1..Len(list) }

\* how many times x occurs in list
Count(list, x) == Cardinality({ i \in 1..Len(list) : list[i] = x })

\* list.remove(x): drops the first occurrence of x (x is known to occur)
ListRemove(list, x) ==
    LET k == CHOOSE i \in 1..Len(list) :
                 /\ list[i] = x
                 /\ \A j \in 1..(i-1) : list[j] # x
    IN  SubSeq(list, 1, k-1) \o SubSeq(list, k+1, Len(list))

----------------------------------------------------------------------------
(* core/auth.py *)

InitTokensA ==
    << "emsp_token_a_12345", "emsp_token_a_67890", "emsp_development_token_a" >>

InitTokensC ==
    << "cpo_token_c_abcdef", "cpo_token_c_ghijkl", "cpo_development_token_c",
       "test_token_c_123" >>

\* return cls._valid_tokens_a.copy()
get_valid_token_a == tokens_a

\* return cls._valid_tokens_c.copy()
get_valid_token_c == tokens_c

\* Variant: the Token-C list is not consulted.
is_token_valid_only_a(token) ==
    IF token = None
    THEN FALSE
    ELSE Contains(get_valid_token_a, token)

is_token_valid(token) ==
    IF token = None
    THEN FALSE
    ELSE \/ Contains(get_valid_token_a, token)
         \/ Contains(get_valid_token_c, token)

\* Variant: the TOKEN_C branch is missing.
get_token_info_no_c(token) ==
    IF Contains(get_valid_token_a, token)
    THEN [type |-> "TOKEN_A", valid |-> TRUE]
    ELSE [type |-> "UNKNOWN", valid |-> FALSE]

get_token_info(token) ==
    IF Contains(get_valid_token_a, token)
    THEN [type |-> "TOKEN_A", valid |-> TRUE]
    ELSE IF Contains(get_valid_token_c, token)
         THEN [type |-> "TOKEN_C", valid |-> TRUE]
         ELSE [type |-> "UNKNOWN", valid |-> FALSE]

\* Variant: the membership test is missing, every add appends.
add_token_a_unguarded(token) ==
    /\ Len(tokens_a) < MaxTokens
    /\ tokens_a' = Append(tokens_a, token)
    /\ auth_ret' = [op |-> "add_token_a", token |-> token, value |-> "None"]
    /\ UNCHANGED <<tokens_c, crud_vars, conc_vars, env_vars>>

\* The add methods return None on both branches.  (First conjunct: the
\* model stops growing a list at MaxTokens.)
add_token_a(token) ==
    /\ Contains(tokens_a, token) \/ Len(tokens_a) < MaxTokens
    /\ tokens_a' = IF ~Contains(tokens_a, token)
                   THEN Append(tokens_a, token)
                   ELSE tokens_a
    /\ auth_ret' = [op |-> "add_token_a", token |-> token, value |-> "None"]
    /\ UNCHANGED <<tokens_c, crud_vars, conc_vars, env_vars>>

add_token_c(token) ==
    /\ Contains(tokens_c, token) \/ Len(tokens_c) < MaxTokens
    /\ tokens_c' = IF ~Contains(tokens_c, token)
                   THEN Append(tokens_c, token)
                   ELSE tokens_c
    /\ auth_ret' = [op |-> "add_token_c", token |-> token, value |-> "None"]
    /\ UNCHANGED <<tokens_a, crud_vars, conc_vars, env_vars>>

\* Variant: the removal drops the last element, not the token.
remove_token_a_pop(token) ==
    /\ IF Contains(tokens_a, token)
       THEN /\ tokens_a' = SubSeq(tokens_a, 1, Len(tokens_a) - 1)
            /\ auth_ret' = [op |-> "remove_token_a", token |-> token,
                            value |-> "True"]
       ELSE /\ tokens_a' = tokens_a
            /\ auth_ret' = [op |-> "remove_token_a", token |-> token,
                            value |-> "False"]
    /\ UNCHANGED <<tokens_c, crud_vars, conc_vars, env_vars>>

remove_token_a(token) ==
    /\ IF Contains(tokens_a, token)
       THEN /\ tokens_a' = ListRemove(tokens_a, token)
            /\ auth_ret' = [op |-> "remove_token_a", token |-> token,
                            value |-> "True"]
       ELSE /\ tokens_a' = tokens_a
            /\ auth_ret' = [op |-> "remove_token_a", token |-> token,
                            value |-> "False"]
    /\ UNCHANGED <<tokens_c, crud_vars, conc_vars, env_vars>>

\* Variant: the Token-C removal also drops the token from the Token-A list.
remove_token_c_both(token) ==
    /\ IF Contains(tokens_c, token)
       THEN /\ tokens_c' = ListRemove(tokens_c, token)
            /\ tokens_a' = IF Contains(tokens_a, token)
                           THEN ListRemove(tokens_a, token)
                           ELSE tokens_a
            /\ auth_ret' = [op |-> "remove_token_c", token |-> token,
                            value |-> "True"]
       ELSE /\ tokens_c' = tokens_c
            /\ tokens_a' = tokens_a
            /\ auth_ret' = [op |-> "remove_token_c", token |-> token,
                            value |-> "False"]
    /\ UNCHANGED <<crud_vars, conc_vars, env_vars>>

remove_token_c(token) ==
    /\ IF Contains(tokens_c, token)
       THEN /\ tokens_c' = ListRemove(tokens_c, token)
            /\ auth_ret' = [op |-> "remove_token_c", token |-> token,
                            value |-> "True"]
       ELSE /\ tokens_c' = tokens_c
            /\ auth_ret' = [op |-> "remove_token_c", token |-> token,
                            value |-> "False"]
    /\ UNCHANGED <<tokens_a, crud_vars, conc_vars, env_vars>>

----------------------------------------------------------------------------
(* Python dict primitives.  A dict keeps insertion order: it is a sequence  *)
(* of entries [k |-> key, v |-> value] with pairwise different keys.        *)

EmptyDict == << >>

\* key in d
HasKey(d, key) == \E i \in 1..Len(d) : d[i].k = key

\* d[key] (key is known to be present)
DictGet(d, key) == d[CHOOSE i \in 1..Len(d) : d[i].k = key].v

\* d[key] = value: in place when the key exists, appended otherwise
DictSet(d, key, value) ==
    IF HasKey(d, key)
    THEN [i \in 1..Len(d) |-> IF d[i].k = key
                              THEN [k |-> key, v |-> value]
                              ELSE d[i]]
    ELSE Append(d, [k |-> key, v |-> value])

\* del d[key] (key is known to be present)
DictDel(d, key) ==
    LET i == CHOOSE j \in 1..Len(d) : d[j].k = key
    IN  SubSeq(d, 1, i-1) \o SubSeq(d, i+1, Len(d))

\* list(d.keys())
DictKeys(d) == { d[i].k : i \in 1..Len(d) }

\* An object (the `data` dict of a request) is a function from the field
\* names it carries to their values.
\* a.update(b): every field of b overwrites, the others stay
DictUpdate(a, b) == b @@ a

\* data[field] = value
SetField(a, field, value) ==
    [f \in (DOMAIN a) \cup {field} |-> IF f = field THEN value ELSE a[f]]

----------------------------------------------------------------------------
(* core/crud.py *)

\* Instants the clock may reach by waiting, counted in microseconds after
\* the whole second 2024-01-01T00:00:00 UTC.
MaxClock == 1

\* How many objects the model lets the whole store hold.
MaxObjects == 2

\* The last instant a timestamp is made of, in microseconds after the
\* whole second 2024-01-01T00:00:00 UTC.
MaxInstant == 18

\* f"{n:06d}"
Pad6(n) == IF n < 10 THEN "00000" \o ToString(n)
           ELSE IF n < 100 THEN "0000" \o ToString(n)
           ELSE IF n < 1000 THEN "000" \o ToString(n)
           ELSE IF n < 10000 THEN "00" \o ToString(n)
           ELSE IF n < 100000 THEN "0" \o ToString(n)
           ELSE ToString(n)

\* The microseconds of a second: a datetime counts microseconds.
Second == 1000000

\* The last whole second the clock reaches by waiting.
MaxTime == 31

\* f"{n:02d}"
Pad2(n) == IF n < 10 THEN "0" \o ToString(n) ELSE ToString(n)

\* The date and time datetime.isoformat() writes before the UTC offset,
\* for the instant t, within the first minute, moved back by 0, 1 or 2
\* hours (timedelta(hours=...)): the seconds in two digits, and the
\* microsecond part left out when it is zero.
DateTimeText(hours, t) ==
    (CASE hours = 0 -> "2024-01-01T00:00:"
       [] hours = 1 -> "2023-12-31T23:00:"
       [] hours = 2 -> "2023-12-31T22:00:")
    \o Pad2(t \div Second)
    \o (IF t % Second = 0 THEN "" ELSE "." \o Pad6(t % Second))

\* datetime.isoformat() of the instants 0, 1, 2, ... of an aware datetime
\* in UTC, kept as a table for the instants up to MaxInstant.
IsoText == [i \in 1..(MaxInstant + 1) |-> DateTimeText(0, i - 1) \o "+00:00"]

isoformat(t) ==
    IF t <= MaxInstant THEN IsoText[t + 1] ELSE DateTimeText(0, t) \o "+00:00"

\* The texts the factory writes, isoformat().replace("+00:00", "Z"), of a datetime
\* read `hours` hours before the instants 0, 1, 2, ...
ZText ==
    [hours \in 0..2 |->
        [i \in 1..(MaxInstant + 1) |-> DateTimeText(hours, i - 1) \o "Z"]]


\* datetime.fromisoformat(text) of a text isoformat produced
\* The instants a timestamp is made of: up to MaxInstant microseconds
\* after a whole second.
Instants == { s * Second + u : s \in 0..MaxTime, u \in 0..MaxInstant }

fromisoformat(text) ==
    IF \E i \in 1..Len(IsoText) : IsoText[i] = text
    THEN CHOOSE t \in 0..(Len(IsoText) - 1) : IsoText[t + 1] = text
    ELSE CHOOSE t \in Instants : isoformat(t) = text

\* str(uuid.uuid4()): version-4 identifiers are drawn at random from 2^122
\* values.  The model draws from this pool, and a draw never repeats an
\* identifier some stored object is filed under.
UuidPool == { "0b8e4a5e-0000-4000-8000-000000000001" }

\* The keys of EMSPCrud._storage.
StorageKeys ==
    { "locations", "sessions", "cdrs", "tariffs", "commands", "tokens",
      "hub_client_info", "charging_profiles", "credentials" }

\* module_mapping of _get_storage_key, keyed by ModuleID member name.
module_mapping ==
    [ locations |-> "locations", sessions |-> "sessions", cdrs |-> "cdrs",
      tariffs |-> "tariffs", commands |-> "commands", tokens |-> "tokens",
      hub_client_info |-> "hub_client_info",
      charging_profile |-> "charging_profiles",
      credentials_and_registration |-> "credentials" ]

\* Every ModuleID member is a key of module_mapping, so the default of
\* module_mapping.get(module, module.value) is never taken.
get_storage_key(module) == module_mapping[module]

\* ModuleID members the modelled requests use.
Modules == { "locations", "charging_profile" }

\* Identifiers a caller supplies.
SuppliedIds == { "TEST001" }

\* Identifiers a caller asks for in get / update / delete.
LookupIds == SuppliedIds \cup UuidPool

\* Payload values of the field "name".
Names == { "Test Location" }

\* A last_updated a caller may send along; create and update overwrite it.
StaleStamp == "2023-12-31T23:59:59+00:00"

\* The request bodies: a hand-built body carries any of id and name; a body
\* echoed from an earlier response carries all fields, last_updated included.
DataInputs ==
    { [f \in fs |-> IF f = "id" THEN i ELSE n] :
        fs \in SUBSET {"id", "name"},
        i \in SuppliedIds \cup {""},
        n \in Names }
    \cup
    { [id |-> i, name |-> n, last_updated |-> StaleStamp] :
        i \in SuppliedIds, n \in Names }

\* data.get("id"): None when the field is absent
DataId(data) == IF "id" \in DOMAIN data THEN data["id"] ELSE None

\* truthiness of data.get("id"): None and "" are falsy
Truthy(v) == v # None /\ v # ""

\* number of objects in the whole store
TotalObjects == LET RECURSIVE Sum(_)
                    Sum(S) == IF S = {} THEN 0
                              ELSE LET x == CHOOSE y \in S : TRUE
                                   IN  Len(storage[x]) + Sum(S \ {x})
                IN  Sum(StorageKeys)

NoData == [f \in {} |-> ""]

\* What get finds in a store: the object filed under id, or
\* NotFoundOCPIError raised.
StoreGet(store, module, id) ==
    LET storage_key == get_storage_key(module)
    IN  IF ~HasKey(store[storage_key], id)
        THEN [exc |-> "NotFoundOCPIError", data |-> NoData]
        ELSE [exc |-> "", data |-> DictGet(store[storage_key], id)]

get(module, id) ==
    /\ crud_ret' = [op |-> "get", exc |-> StoreGet(storage, module, id).exc,
                    data |-> StoreGet(storage, module, id).data]
    /\ UNCHANGED <<storage, shared, now, auth_vars, conc_vars, env_vars>>

\* the identifiers uuid.uuid4() may return in the current state
uuid4 == { u \in UuidPool : \A key \in StorageKeys : ~HasKey(storage[key], u) }

(* Python keeps dicts by reference.  A place of _storage is a storage key
   and a key of its dict; create stores the caller's dict itself, so a dict
   that is passed to create twice is one object held at two places, and
   what create or update writes into it shows at every place that holds it.
   `aliases` is such a set of sets of places (the variable shared). *)

\* The dict a caller passes is held by no place of _storage.
NoPlace == << >>

\* The places that hold the same dict object as place does.
SameObject(aliases, place) ==
    IF \E b \in aliases : place \in b
    THEN CHOOSE b \in aliases : place \in b
    ELSE {place}

\* The sets of places that are shared: those of two places or more.
Blocks(sets) == { b \in sets : Cardinality(b) >= 2 }

\* place stops holding the object it held (del, or another object is
\* assigned to it).
Unshare(aliases, place) == Blocks({ b \ {place} : b \in aliases })

\* The store after the one object the places hold has been changed in
\* place to value.
WriteThrough(store, places, value) ==
    [key \in DOMAIN store |->
        IF \A place \in places : place[1] # key
        THEN store[key]
        ELSE [i \in 1..Len(store[key]) |->
                 IF <<key, store[key][i].k>> \in places
                 THEN [k |-> store[key][i].k, v |-> value]
                 ELSE store[key][i]]]

\* The places of the store.
Places(store) ==
    UNION { { <<key, store[key][i].k>> : i \in 1..Len(store[key]) } :
            key \in DOMAIN store }

\* Variant: create on an id that is already stored merges the payload into
\* the stored object, as update does.
create_outcome_merge(store, aliases, t, module, data, src, uuid) ==
    LET storage_key == get_storage_key(module)
        object_id == IF Truthy(DataId(data)) THEN DataId(data) ELSE uuid
        old == IF HasKey(store[storage_key], object_id)
               THEN DictGet(store[storage_key], object_id)
               ELSE NoData
        stored == SetField(SetField(DictUpdate(old, data), "id", object_id),
                           "last_updated", isoformat(t))
    IN  [exc |-> "", data |-> stored,
         storage |-> [store EXCEPT
             ![storage_key] = DictSet(@, object_id, stored)],
         shared |-> aliases]

\* Variant: the object is filed under data.get("id") as the caller sent it.
create_outcome_raw_key(store, aliases, t, module, data, src, uuid) ==
    LET storage_key == get_storage_key(module)
        object_id == IF Truthy(DataId(data)) THEN DataId(data) ELSE uuid
        stored == SetField(SetField(data, "id", object_id),
                           "last_updated", isoformat(t))
    IN  [exc |-> "", data |-> stored,
         storage |-> [store EXCEPT
             ![storage_key] = DictSet(@, DataId(data), stored)],
         shared |-> aliases]

\* What create does at the instant t, with the value uuid drawn for
\* str(uuid.uuid4()), to the store `store` whose shared places are
\* `aliases`: the object returned, the store and the shared places
\* afterwards.  data is the value of the caller's dict and src the place
\* that holds this very dict (NoPlace: none does).  The dict is completed
\* in place, which shows at every place that holds it, and is assigned to
\* the place (storage_key, object_id).  create raises nothing.
create_outcome(store, aliases, t, module, data, src, uuid) ==
    LET storage_key == get_storage_key(module)
        object_id == IF Truthy(DataId(data)) THEN DataId(data) ELSE uuid
        stored == SetField(SetField(data, "id", object_id),
                           "last_updated", isoformat(t))
        place == <<storage_key, object_id>>
        held == IF src = NoPlace THEN {} ELSE SameObject(aliases, src)
        written == IF held = {} THEN store
                   ELSE WriteThrough(store, held, stored)
    IN  [exc |-> "", data |-> stored,
         storage |-> [written EXCEPT
             ![storage_key] = DictSet(@, object_id, stored)],
         shared |-> Blocks({ b \ {place} : b \in aliases \ {held} }
                           \cup {held \cup {place}})]

\* Variant: the module dict is started afresh, so the new object is the
\* only one the module holds afterwards.
create_with_fresh_dict(module, data, src, uuid) ==
    \E outcome \in {create_outcome(storage, shared, now, module, data, src,
                                   uuid)} :
        /\ \/ HasKey(storage[get_storage_key(module)], outcome.data["id"])
           \/ TotalObjects < MaxObjects
        /\ storage' = [storage EXCEPT
               ![get_storage_key(module)] =
                   DictSet(EmptyDict, outcome.data["id"], outcome.data)]
        /\ shared' = {}
        /\ crud_ret' = [op |-> "create", exc |-> "", data |-> outcome.data]
        /\ UNCHANGED <<now, auth_vars, conc_vars, env_vars>>

\* create with the value drawn for str(uuid.uuid4()); the draw is only
\* evaluated when data.get("id") is falsy.  The caller's dict is completed
\* in place, stored and returned.  (First conjunct: the model stops
\* growing the store at MaxObjects.)
create_with(module, data, src, uuid) ==
    \E outcome \in {create_outcome(storage, shared, now, module, data, src,
                                   uuid)} :
        /\ \/ HasKey(storage[get_storage_key(module)], outcome.data["id"])
           \/ TotalObjects < MaxObjects
        /\ storage' = outcome.storage
        /\ shared' = outcome.shared
        /\ crud_ret' = [op |-> "create", exc |-> outcome.exc,
                        data |-> outcome.data]
        /\ UNCHANGED <<now, auth_vars, conc_vars, env_vars>>

\* create(module, role, data): data is a dict of the caller's own
\* (src = NoPlace) or the dict the place src holds, with the value it has
\* there.
create(module, data, src) ==
    /\ src # NoPlace =>
           /\ HasKey(storage[src[1]], src[2])
           /\ data = DictGet(storage[src[1]], src[2])
    /\ IF Truthy(DataId(data))
       THEN create_with(module, data, src, None)
       ELSE \E uuid \in uuid4 : create_with(module, data, src, uuid)

\* Variant: an absent id is created instead of refused (upsert).
update_upsert(module, data, id) ==
    LET storage_key == get_storage_key(module)
        old == IF HasKey(storage[storage_key], id)
               THEN DictGet(storage[storage_key], id)
               ELSE NoData
        existing_data == SetField(DictUpdate(old, data),
                                  "last_updated", isoformat(now))
    IN  /\ HasKey(storage[storage_key], id) \/ TotalObjects < MaxObjects
        /\ storage' = [WriteThrough(storage,
                                    SameObject(shared, <<storage_key, id>>),
                                    existing_data)
                         EXCEPT ![storage_key] = DictSet(@, id, existing_data)]
        /\ crud_ret' = [op |-> "update", exc |-> "", data |-> existing_data]
        /\ UNCHANGED <<shared, now, auth_vars, conc_vars, env_vars>>

\* Variant: the stored object is replaced by the payload instead of merged.
update_outcome_replace(store, aliases, t, module, data, id) ==
    LET storage_key == get_storage_key(module)
    IN  IF ~HasKey(store[storage_key], id)
        THEN [exc |-> "NotFoundOCPIError", data |-> NoData, storage |-> store]
        ELSE LET existing_data == SetField(data, "last_updated", isoformat(t))
             IN  [exc |-> "", data |-> existing_data,
                  storage |-> WriteThrough(
                      store, SameObject(aliases, <<storage_key, id>>),
                      existing_data)]

\* What update does at the instant t to the store `store` whose shared
\* places are `aliases`: the exception raised ("" for none), the object
\* returned and the store afterwards.  existing_data is the stored dict
\* itself: the merge shows at every place that holds it.  update shares
\* and unshares nothing.
update_outcome(store, aliases, t, module, data, id) ==
    LET storage_key == get_storage_key(module)
    IN  IF ~HasKey(store[storage_key], id)
        THEN [exc |-> "NotFoundOCPIError", data |-> NoData, storage |-> store]
        ELSE LET existing_data ==
                     SetField(DictUpdate(DictGet(store[storage_key], id),
                                         data),
                              "last_updated", isoformat(t))
             IN  [exc |-> "", data |-> existing_data,
                  storage |-> WriteThrough(
                      store, SameObject(aliases, <<storage_key, id>>),
                      existing_data)]

update(module, data, id) ==
    \E outcome \in {update_outcome(storage, shared, now, module, data, id)} :
        /\ storage' = outcome.storage
        /\ crud_ret' = [op |-> "update", exc |-> outcome.exc,
                        data |-> outcome.data]
        /\ UNCHANGED <<shared, now, auth_vars, conc_vars, env_vars>>

\* Variant: the whole module is emptied, not just the entry under id.
delete_outcome_clear(store, module, id) ==
    LET storage_key == get_storage_key(module)
    IN  IF ~HasKey(store[storage_key], id)
        THEN [exc |-> "NotFoundOCPIError", storage |-> store]
        ELSE [exc |-> "",
              storage |-> [store EXCEPT ![storage_key] = EmptyDict]]

\* What delete does to the store `store`: the exception raised ("" for
\* none) and the store afterwards.  delete returns None.
delete_outcome(store, module, id) ==
    LET storage_key == get_storage_key(module)
    IN  IF ~HasKey(store[storage_key], id)
        THEN [exc |-> "NotFoundOCPIError", storage |-> store]
        ELSE [exc |-> "",
              storage |-> [store EXCEPT ![storage_key] = DictDel(@, id)]]

\* del removes the key; the object lives on at the other places that hold
\* it.
delete(module, id) ==
    \E outcome \in {delete_outcome(storage, module, id)} :
        /\ storage' = outcome.storage
        /\ shared' = IF outcome.exc = ""
                     THEN Unshare(shared, <<get_storage_key(module), id>>)
                     ELSE shared
        /\ crud_ret' = [op |-> "delete", exc |-> outcome.exc, data |-> NoData]
        /\ UNCHANGED <<now, auth_vars, conc_vars, env_vars>>

\* list(d.values())
DictValues(d) == [i \in 1..Len(d) |-> d[i].v]

\* seq[start:end] for 0 <= start and 0 <= end <= len(seq)
Slice(seq, start, end) ==
    IF start >= end THEN << >> ELSE SubSeq(seq, start + 1, end)

\* filters.get(key, default)
FilterGet(filters, key, default) ==
    IF key \in DOMAIN filters THEN filters[key] ELSE default

Min(a, b) == IF a <= b THEN a ELSE b

\* the limit list uses when the filters carry none
DefaultLimit == 50

\* Variant: the page takes in the object at the position where it ends.
list_outcome_inclusive_end(store, module, filters) ==
    LET storage_key == get_storage_key(module)
        all_objects == DictValues(store[storage_key])
        offset == FilterGet(filters, "offset", 0)
        limit == FilterGet(filters, "limit", DefaultLimit)
        total_count == Len(all_objects)
        start_idx == offset
        end_idx == Min(offset + limit, total_count)
    IN  [objects_list |-> Slice(all_objects, start_idx,
                                Min(end_idx + 1, total_count)),
         total_count |-> total_count,
         is_last_page |-> end_idx >= total_count]

\* Variant: the page size is taken for the position where the page ends.
list_outcome_limit_as_end(store, module, filters) ==
    LET storage_key == get_storage_key(module)
        all_objects == DictValues(store[storage_key])
        offset == FilterGet(filters, "offset", 0)
        limit == FilterGet(filters, "limit", DefaultLimit)
        total_count == Len(all_objects)
        start_idx == offset
        end_idx == Min(limit, total_count)
    IN  [objects_list |-> Slice(all_objects, start_idx, end_idx),
         total_count |-> total_count,
         is_last_page |-> end_idx >= total_count]

\* What list returns on the store `store`: the page, the number of objects
\* of the module and whether the page is the last one.  The filters
\* date_from and date_to are not read.
list_outcome(store, module, filters) ==
    LET storage_key == get_storage_key(module)
        all_objects == DictValues(store[storage_key])
        offset == FilterGet(filters, "offset", 0)
        limit == FilterGet(filters, "limit", DefaultLimit)
        total_count == Len(all_objects)
        start_idx == offset
        end_idx == Min(offset + limit, total_count)
    IN  [objects_list |-> Slice(all_objects, start_idx, end_idx),
         total_count |-> total_count,
         is_last_page |-> end_idx >= total_count]

list(module, filters) ==
    /\ crud_ret' = [op |-> "list", exc |-> "",
                    data |-> list_outcome(storage, module, filters)]
    /\ UNCHANGED <<storage, shared, now, auth_vars, conc_vars, env_vars>>

\* Action is a str Enum of the py_ocpi library: a member equals its value,
\* and action.value is that value.  The members EMSPCrud.do tells apart,
\* each with the values it may have: the value is spelled like the name of
\* the member, the words joined by "-" or by "_".
Action ==
    [ get_client_token |-> { "get-client-token", "get_client_token" },
      authorize_token |-> { "authorize-token", "authorize_token" },
      send_command |-> { "send-command", "send_command" },
      send_get_chargingprofile |->
          { "send-get-chargingprofile", "send_get_chargingprofile" },
      send_delete_chargingprofile |->
          { "send-delete-chargingprofile", "send_delete_chargingprofile" },
      send_update_charging_profile |->
          { "send-update-charging-profile", "send_update_charging_profile" } ]

\* The action argument of do, by its value.
Actions == UNION { Action[member] : member \in DOMAIN Action }

\* str(uuid)[:8]
Prefix8 == [u \in UuidPool |-> "0b8e4a5e"]

\* kwargs.get(key, default)
KwargsGet(kwargs, key, default) ==
    IF key \in DOMAIN kwargs THEN kwargs[key] ELSE default

\* the timeout do announces for a command
CommandTimeout == 30

\* What do returns, with uuid the value drawn for uuid.uuid4() (only
\* get_client_token uses it; send_command draws a command id and drops
\* it).  The message of a charging profile action carries action.value.
\* No branch reads or writes the store.
do_outcome(action, kwargs, uuid) ==
    CASE action \in Action.get_client_token ->
             "mock_client_token_" \o Prefix8[uuid]
      [] action \in Action.authorize_token ->
             [allowed |-> "ALLOWED",
              authorization_info |->
                  [allowed |-> "ALLOWED",
                   token |-> KwargsGet(kwargs, "token", "unknown"),
                   location |-> KwargsGet(kwargs, "location", None)]]
      [] action \in Action.send_command ->
             [result |-> "ACCEPTED", timeout |-> CommandTimeout,
              message |-> "Command accepted for processing"]
      [] action \in Action.send_get_chargingprofile
                      \cup Action.send_delete_chargingprofile
                      \cup Action.send_update_charging_profile ->
             [result |-> "ACCEPTED", timeout |-> CommandTimeout,
              message |-> "Charging profile " \o action \o " accepted"]
      [] OTHER -> [result |-> "UNKNOWN_ACTION"]

\* crud_ret also records which action the call was for.  No branch reads
\* data, the payload of the action.
do(module, action, data, kwargs) ==
    /\ \E uuid \in UuidPool :
           crud_ret' = [op |-> "do", action |-> action, exc |-> "",
                        data |-> do_outcome(action, kwargs, uuid)]
    /\ UNCHANGED <<storage, shared, now, auth_vars, conc_vars, env_vars>>

----------------------------------------------------------------------------
(* core/crud.py: create, update and delete of requests in flight *)

\* How many requests are in flight at once.
MaxRequests == 2

Slots == 1..MaxRequests

\* A slot no request has arrived on.
Idle ==
    [op |-> "none", pc |-> "idle", module |-> "", id |-> None,
     data |-> NoData, existing_data |-> NoData, t |-> 0, peers |-> 0]

\* The statement a handler starts at.
Entry(op) ==
    CASE op = "create" -> "create:object_id"
      [] op = "update" -> "update:check"
      [] op = "delete" -> "delete:check"

InFlight(slot) == requests[slot].pc \notin {"idle", "done"}

\* A request arrives: its coroutine is created and waits for the event
\* loop.  Requests arrive at any time, also while a handler is running.
\* History: peers counts the requests already in flight.
Arrive(slot, op, module, data, id) ==
    /\ requests[slot] = Idle
    /\ requests' = [requests EXCEPT ![slot] =
           [op |-> op, pc |-> Entry(op), module |-> module, id |-> id,
            data |-> data, existing_data |-> NoData, t |-> 0,
            peers |-> Cardinality({ other \in Slots : InFlight(other) })]]
    /\ UNCHANGED <<running, serial, crud_vars, auth_vars, env_vars>>

\* Variant: the event loop may leave a handler between any two statements.
CanRun_preemptive(slot) == TRUE

\* The event loop runs one coroutine at a time and changes coroutine only
\* where the running one awaits.  The bodies of create, update and delete
\* hold no await, so a handler that has started runs to its return or raise
\* before any other handler runs a statement.
CanRun(slot) == running = 0 \/ running = slot

\* The handler on slot goes on to the statement pc.
Goto(slot, pc) ==
    /\ requests' = [requests EXCEPT ![slot].pc = pc]
    /\ running' = slot

\* The handler on slot returns data or raises exc.  History: the same call
\* is applied in one piece to the store the earlier calls gave.
Return(slot, exc, data) ==
    LET r == requests[slot]
        whole == CASE r.op = "create" ->
                          create_outcome(serial.storage, {}, r.t, r.module,
                                         r.data, NoPlace, None)
                   [] r.op = "update" ->
                          update_outcome(serial.storage, {}, r.t, r.module,
                                         r.data, r.id)
                   [] r.op = "delete" ->
                          [exc |-> delete_outcome(serial.storage, r.module,
                                                  r.id).exc,
                           data |-> NoData,
                           storage |-> delete_outcome(serial.storage,
                                                      r.module, r.id).storage]
    IN  /\ requests' = [requests EXCEPT ![slot].pc = "done"]
        /\ running' = 0
        /\ crud_ret' = [op |-> r.op, exc |-> exc, data |-> data]
        /\ serial' = [storage |-> whole.storage, exc |-> whole.exc,
                      data |-> whole.data, applied |-> serial.applied + 1]

\* One statement of create on slot.  data is the caller's dict, completed
\* in place; the request carries an id, so uuid4 is not called.
create_step(slot) ==
    LET r == requests[slot]
        storage_key == get_storage_key(r.module)
    IN  \/ /\ r.pc = "create:object_id"
           /\ Truthy(DataId(r.data))
           /\ requests' = [requests EXCEPT
                  ![slot].pc = "create:set_id", ![slot].id = DataId(r.data)]
           /\ running' = slot
           /\ UNCHANGED <<storage, shared, now, crud_ret, serial, auth_vars,
                         env_vars>>
        \/ /\ r.pc = "create:set_id"
           /\ requests' = [requests EXCEPT
                  ![slot].pc = "create:set_last_updated",
                  ![slot].data = SetField(r.data, "id", r.id)]
           /\ running' = slot
           /\ UNCHANGED <<storage, shared, now, crud_ret, serial, auth_vars,
                         env_vars>>
        \/ /\ r.pc = "create:set_last_updated"
           /\ requests' = [requests EXCEPT
                  ![slot].pc = "create:store",
                  ![slot].data = SetField(r.data, "last_updated",
                                          isoformat(now)),
                  ![slot].t = now]
           /\ running' = slot
           /\ UNCHANGED <<storage, shared, now, crud_ret, serial, auth_vars,
                         env_vars>>
        \/ /\ r.pc = "create:store"
           /\ storage' = [storage EXCEPT
                  ![storage_key] = DictSet(@, r.id, r.data)]
           /\ Goto(slot, "create:return")
           /\ UNCHANGED <<shared, now, crud_ret, serial, auth_vars,
                         env_vars>>
        \/ /\ r.pc = "create:return"
           /\ Return(slot, "", r.data)
           /\ UNCHANGED <<storage, shared, now, auth_vars, env_vars>>

\* One statement of update on slot.  existing_data is the stored dict
\* itself, not a copy: what update and the assignment of last_updated do to
\* it shows in the store at once, as long as the store still holds it.
update_step(slot) ==
    LET r == requests[slot]
        storage_key == get_storage_key(r.module)
        held == /\ HasKey(storage[storage_key], r.id)
                /\ DictGet(storage[storage_key], r.id) = r.existing_data
        InPlace(changed) ==
            /\ requests' = [requests EXCEPT
                   ![slot].existing_data = changed, ![slot].t = now,
                   ![slot].pc = IF r.pc = "update:merge"
                                THEN "update:set_last_updated"
                                ELSE "update:store"]
            /\ running' = slot
            /\ storage' = IF held
                          THEN [storage EXCEPT
                                   ![storage_key] = DictSet(@, r.id, changed)]
                          ELSE storage
    IN  \/ /\ r.pc = "update:check"
           /\ IF ~HasKey(storage[storage_key], r.id)
              THEN Return(slot, "NotFoundOCPIError", NoData)
              ELSE Goto(slot, "update:fetch") /\ UNCHANGED <<crud_ret, serial>>
           /\ UNCHANGED <<storage, shared, now, auth_vars, env_vars>>
        \/ /\ r.pc = "update:fetch"
           /\ IF ~HasKey(storage[storage_key], r.id)
              THEN Return(slot, "KeyError", NoData)
              ELSE /\ requests' = [requests EXCEPT
                          ![slot].pc = "update:merge",
                          ![slot].existing_data =
                              DictGet(storage[storage_key], r.id)]
                   /\ running' = slot
                   /\ UNCHANGED <<crud_ret, serial>>
           /\ UNCHANGED <<storage, shared, now, auth_vars, env_vars>>
        \/ /\ r.pc = "update:merge"
           /\ InPlace(DictUpdate(r.existing_data, r.data))
           /\ UNCHANGED <<shared, now, crud_ret, serial, auth_vars,
                         env_vars>>
        \/ /\ r.pc = "update:set_last_updated"
           /\ InPlace(SetField(r.existing_data, "last_updated",
                               isoformat(now)))
           /\ UNCHANGED <<shared, now, crud_ret, serial, auth_vars,
                         env_vars>>
        \/ /\ r.pc = "update:store"
           /\ storage' = [storage EXCEPT
                  ![storage_key] = DictSet(@, r.id, r.existing_data)]
           /\ Goto(slot, "update:return")
           /\ UNCHANGED <<shared, now, crud_ret, serial, auth_vars,
                         env_vars>>
        \/ /\ r.pc = "update:return"
           /\ Return(slot, "", r.existing_data)
           /\ UNCHANGED <<storage, shared, now, auth_vars, env_vars>>

\* One statement of delete on slot; delete returns None after the del.
delete_step(slot) ==
    LET r == requests[slot]
        storage_key == get_storage_key(r.module)
    IN  \/ /\ r.pc = "delete:check"
           /\ IF ~HasKey(storage[storage_key], r.id)
              THEN Return(slot, "NotFoundOCPIError", NoData)
              ELSE Goto(slot, "delete:del") /\ UNCHANGED <<crud_ret, serial>>
           /\ UNCHANGED <<storage, shared, now, auth_vars, env_vars>>
        \/ /\ r.pc = "delete:del"
           /\ IF ~HasKey(storage[storage_key], r.id)
              THEN Return(slot, "KeyError", NoData) /\ UNCHANGED storage
              ELSE /\ storage' = [storage EXCEPT
                          ![storage_key] = DictDel(@, r.id)]
                   /\ Return(slot, "", NoData)
           /\ UNCHANGED <<shared, now, auth_vars, env_vars>>

\* The event loop runs the next statement of the handler on slot.
Step(slot) ==
    /\ InFlight(slot)
    /\ CanRun(slot)
    /\ \/ create_step(slot)
       \/ update_step(slot)
       \/ delete_step(slot)

\* Time passes between two calls: a microsecond, up to MaxClock of them
\* after a whole second.
Tick ==
    /\ now % Second < MaxClock
    /\ now' = now + 1
    /\ UNCHANGED <<storage, shared, crud_ret, auth_vars, conc_vars, env_vars>>

----------------------------------------------------------------------------
(* The commands.  The send of a command is the send_command branch of
   EMSPCrud.do above.  The repository declares the setting
   COMMAND_AWAIT_TIME and the dict _storage["commands"]; no code of it
   keeps a command that was sent, receives a callback or runs a timer, so
   while time passes nothing of the backend changes. *)

\* EMSPSettings.COMMAND_AWAIT_TIME, in seconds
COMMAND_AWAIT_TIME == 30

\* The payloads of a send: complete, or with one reference empty.
PayloadInputs ==
    LET complete == [location_id |-> "LOC001", evse_uid |-> "EVSE001",
                     connector_id |-> "1", token |-> "TOKEN001"]
    IN  {complete} \cup { [complete EXCEPT ![f] = ""] : f \in DOMAIN complete }

ValidPayload(payload) ==
    /\ payload.location_id # ""
    /\ payload.evse_uid # ""
    /\ payload.connector_id # ""
    /\ payload.token # ""

\* Whole seconds pass between two calls, on the clock create and update
\* read.  No code of the backend runs meanwhile.
Elapse(seconds) ==
    /\ now \div Second + seconds <= MaxTime
    /\ now' = now + seconds * Second
    /\ UNCHANGED <<storage, shared, crud_ret, auth_vars, conc_vars, env_vars>>

----------------------------------------------------------------------------
(* testing/tests/mock_cpo_server.py: MockCPOCrud.  _storage is an          *)
(* attribute of the instance, set in __init__, and every classmethod       *)
(* starts with instance = cls().  mock_ret records the last call: its      *)
(* arguments, what it returned, and the _storage of the instance the call  *)
(* built and worked on (nothing refers to that instance once the call has  *)
(* returned).                                                              *)

\* ModuleID members the modelled calls of the mock use.
MockModules == { "locations", "tariffs", "sessions" }

\* f"{n:03d}"
Pad3(n) == IF n < 10 THEN "00" \o ToString(n)
           ELSE IF n < 100 THEN "0" \o ToString(n)
           ELSE ToString(n)

\* TestDataFactory.__init__
country_codes == << "US", "DE", "NL", "FR", "UK" >>

party_ids == << "EMS", "CPO", "BEC", "TNM", "EVN" >>

currencies == << "USD", "EUR", "GBP" >>

\* TestDataFactory.generate_timestamp() at the instant t:
\* isoformat().replace("+00:00", "Z")
generate_timestamp(t) ==
    IF t <= MaxInstant THEN ZText[0][t + 1] ELSE DateTimeText(0, t) \o "Z"

(* The factory methods.  `drawn` holds what a method draws with random and
   uuid for the object it builds (a float as its decimal text), `reads`
   the readings of the clock of the whole __init__ in the order they are
   taken, and k the index in reads of the first reading the method takes.
   A dict literal is evaluated in the order of its keys, so a nested
   object reads the clock before the last_updated of the object around
   it. *)

\* TestDataFactory.create_connector: one reading.
create_connector(drawn, reads, k) ==
    [ id |-> drawn.connector_id,
      standard |-> "IEC_62196_T2",
      format |-> "SOCKET",
      power_type |-> "AC_3_PHASE",
      max_voltage |-> 400,
      max_amperage |-> 32,
      max_electric_power |-> 22000,
      tariff_ids |-> << drawn.connector_tariff_id >>,
      terms_and_conditions |-> None,
      last_updated |-> generate_timestamp(reads[k]) ]

\* TestDataFactory.create_evse: two readings.
create_evse(drawn, reads, k) ==
    [ uid |-> drawn.evse_uid,
      evse_id |-> drawn.evse_id,
      status |-> "AVAILABLE",
      status_schedule |-> << >>,
      capabilities |-> << "RESERVABLE", "CHARGING_PROFILE_CAPABLE" >>,
      connectors |-> << create_connector(drawn, reads, k) >>,
      floor_level |-> None,
      coordinates |-> drawn.evse_coordinates,
      physical_reference |-> drawn.physical_reference,
      directions |-> << >>,
      parking_restrictions |-> << >>,
      images |-> << >>,
      last_updated |-> generate_timestamp(reads[k + 1]) ]

\* TestDataFactory.create_location(**kwargs): three readings.
create_location(drawn, reads, k, kwargs) ==
    DictUpdate(
        [ country_code |-> drawn.country_code,
          party_id |-> drawn.party_id,
          id |-> drawn.id,
          publish |-> TRUE,
          name |-> drawn.name,
          address |-> drawn.address,
          city |-> "Test City",
          postal_code |-> drawn.postal_code,
          state |-> "Test State",
          country |-> "USA",
          coordinates |-> drawn.coordinates,
          related_locations |-> << >>,
          parking_type |-> "ON_STREET",
          evses |-> << create_evse(drawn, reads, k) >>,
          directions |-> << >>,
          operator |-> [name |-> "Test Operator"],
          suboperator |-> None,
          owner |-> None,
          facilities |-> << "HOTEL", "RESTAURANT" >>,
          time_zone |-> "America/New_York",
          opening_times |-> [twentyfourseven |-> TRUE],
          charging_when_closed |-> TRUE,
          images |-> << >>,
          energy_mix |-> None,
          last_updated |-> generate_timestamp(reads[k + 2]) ],
        kwargs)

\* TestDataFactory.create_cdr_token: no reading.
create_cdr_token(drawn) ==
    [ country_code |-> drawn.token_country_code,
      party_id |-> drawn.token_party_id,
      uid |-> drawn.token_uid,
      type |-> "RFID",
      contract_id |-> drawn.contract_id ]

\* TestDataFactory.create_charging_period: one reading, moved back an hour.
create_charging_period(drawn, reads, k) ==
    [ start_date_time |-> ZText[1][reads[k] + 1],
      dimensions |-> << [type |-> "ENERGY", volume |-> drawn.energy_volume],
                        [type |-> "TIME", volume |-> drawn.time_volume] >>,
      tariff_id |-> drawn.period_tariff_id ]

\* TestDataFactory.create_session(**kwargs): three readings, the first
\* (start_time) moved back two hours.
create_session(drawn, reads, k, kwargs) ==
    DictUpdate(
        [ country_code |-> drawn.country_code,
          party_id |-> drawn.party_id,
          id |-> drawn.id,
          start_date_time |-> ZText[2][reads[k] + 1],
          end_date_time |-> None,
          kwh |-> drawn.kwh,
          cdr_token |-> create_cdr_token(drawn),
          auth_method |-> "AUTH_REQUEST",
          authorization_reference |-> drawn.authorization_reference,
          location_id |-> drawn.location_id,
          evse_uid |-> drawn.evse_uid,
          connector_id |-> "1",
          meter_id |-> drawn.meter_id,
          currency |-> drawn.currency,
          charging_periods |-> << create_charging_period(drawn, reads, k + 1) >>,
          total_cost |-> [excl_vat |-> drawn.total_excl_vat,
                          incl_vat |-> drawn.total_incl_vat],
          status |-> "ACTIVE",
          last_updated |-> generate_timestamp(reads[k + 2]) ],
        kwargs)

\* TestDataFactory.create_tariff_element: no reading.
create_tariff_element(drawn) ==
    [ price_components |->
          << [type |-> "ENERGY", price |-> drawn.energy_price,
              vat |-> drawn.energy_vat, step_size |-> 1],
             [type |-> "TIME", price |-> drawn.time_price,
              vat |-> drawn.time_vat, step_size |-> 60] >>,
      restrictions |-> None ]

\* TestDataFactory.create_tariff(**kwargs): one reading.
create_tariff(drawn, reads, k, kwargs) ==
    DictUpdate(
        [ country_code |-> drawn.country_code,
          party_id |-> drawn.party_id,
          id |-> drawn.id,
          currency |-> drawn.currency,
          type |-> "REGULAR",
          tariff_alt_text |-> << >>,
          tariff_alt_url |-> None,
          min_price |-> None,
          max_price |-> [excl_vat |-> drawn.max_excl_vat,
                         incl_vat |-> drawn.max_incl_vat],
          elements |-> << create_tariff_element(drawn) >>,
          start_date_time |-> None,
          end_date_time |-> None,
          energy_mix |-> None,
          last_updated |-> generate_timestamp(reads[k]) ],
        kwargs)

\* How often __init__ reads the clock: three times for each of the three
\* locations, once for each of the two tariffs and three times for each of
\* the two sessions.
ReadsOfInit == 17

\* The _storage after __init__: the nine empty module dicts, filled by
\* _populate_test_data with three locations, two tariffs and two sessions
\* under fixed ids.  reads are the readings of the clock and drawn what
\* the factory draws for each object (drawn.locations[i], drawn.tariffs[i],
\* drawn.sessions[i]).
populate_test_data(reads, drawn) ==
    [key \in StorageKeys |->
        CASE key = "locations" ->
               [i \in 1..3 |->
                  LET location ==
                          create_location(
                              drawn.locations[i], reads, 3 * (i - 1) + 1,
                              [id |-> "LOC" \o Pad3(i),
                               name |-> "Mock CPO Station " \o ToString(i),
                               party_id |-> "CPO"])
                  IN  [k |-> location["id"], v |-> location]]
          [] key = "tariffs" ->
               [i \in 1..2 |->
                  LET tariff ==
                          create_tariff(
                              drawn.tariffs[i], reads, 9 + i,
                              [id |-> "TRF" \o Pad3(i), party_id |-> "CPO"])
                  IN  [k |-> tariff["id"], v |-> tariff]]
          [] key = "sessions" ->
               [i \in 1..2 |->
                  LET session ==
                          create_session(
                              drawn.sessions[i], reads, 12 + 3 * (i - 1),
                              [id |-> "SES" \o Pad3(i), party_id |-> "CPO",
                               location_id |-> "LOC001"])
                  IN  [k |-> session["id"], v |-> session]]
          [] OTHER -> EmptyDict]

\* Variant: the class keeps one instance; a call works on the _storage the
\* call before it left behind.
MockCPOCrud_singleton(reads, drawn) ==
    IF mock_ret.op = "none"
    THEN populate_test_data(reads, drawn)
    ELSE mock_ret.instance

\* instance = cls(): a new object with a _storage of its own.
MockCPOCrud(reads, drawn) == populate_test_data(reads, drawn)

\* The outcome of a call of the mock on the instance it built: what it
\* returned (value: "object", "list", "None", "True" or "False"; data: the
\* object or the list) and the _storage of the instance afterwards.

\* MockCPOCrud.get
MockCPOCrud_get_outcome(instance, module, id) ==
    LET storage_key == get_storage_key(module)
    IN  IF HasKey(instance[storage_key], id)
        THEN [value |-> "object", data |-> DictGet(instance[storage_key], id),
              instance |-> instance]
        ELSE [value |-> "None", data |-> NoData, instance |-> instance]

\* MockCPOCrud.list: an object is dropped when it carries a key of the
\* filters with another value.
MockCPOCrud_list_outcome(instance, module, filters) ==
    LET storage_key == get_storage_key(module)
        objects == DictValues(instance[storage_key])
        match(obj) == \A key \in DOMAIN filters :
                          key \in DOMAIN obj => obj[key] = filters[key]
    IN  [value |-> "list", data |-> SelectSeq(objects, match),
         instance |-> instance]

\* MockCPOCrud.create
MockCPOCrud_create_outcome(instance, t, module, data, uuid) ==
    LET storage_key == get_storage_key(module)
        object_id == IF Truthy(DataId(data)) THEN DataId(data) ELSE uuid
        stored == SetField(SetField(data, "id", object_id),
                           "last_updated", isoformat(t))
    IN  [value |-> "object", data |-> stored,
         instance |-> [instance EXCEPT
             ![storage_key] = DictSet(@, object_id, stored)]]

\* MockCPOCrud.update
MockCPOCrud_update_outcome(instance, t, module, data, id) ==
    LET storage_key == get_storage_key(module)
    IN  IF HasKey(instance[storage_key], id)
        THEN LET stored ==
                     SetField(DictUpdate(DictGet(instance[storage_key], id),
                                         data),
                              "last_updated", isoformat(t))
             IN  [value |-> "object", data |-> stored,
                  instance |-> [instance EXCEPT
                      ![storage_key] = DictSet(@, id, stored)]]
        ELSE [value |-> "None", data |-> NoData, instance |-> instance]

\* MockCPOCrud.delete
MockCPOCrud_delete_outcome(instance, module, id) ==
    LET storage_key == get_storage_key(module)
    IN  IF HasKey(instance[storage_key], id)
        THEN [value |-> "True", data |-> NoData,
              instance |-> [instance EXCEPT
                  ![storage_key] = DictDel(@, id)]]
        ELSE [value |-> "False", data |-> NoData, instance |-> instance]

\* A call of the mock returns at the instant t of its last reading of the
\* clock: mock_ret takes the call and its outcome.
MockReturn(op, module, id, t, outcome) ==
    /\ mock_ret' = [op |-> op, module |-> module, id |-> id,
                    value |-> outcome.value, data |-> outcome.data,
                    instance |-> outcome.instance]
    /\ now' = t
    /\ UNCHANGED <<settings, auth_vars, storage, shared, crud_ret, conc_vars>>

\* The microseconds the clock advances from one reading to the next
\* within a call, in the modelled runs.
ClockSteps == 0..1

\* The readings of the clock of a call that begins at the instant t: those
\* of __init__ and one more, which create and update take for the
\* last_updated they write.
ClockReads(t) ==
    { [k \in 1..(ReadsOfInit + 1) |-> t + step * (k - 1)] :
        step \in { d \in ClockSteps : t + d * ReadsOfInit <= MaxInstant } }

\* What the factory draws for one object in the modelled runs: the
\* country_code given, and for every other value the first the factory can
\* draw (uuid4().hex begins with the digits str(uuid4()) begins with).
Drawn(country_code, prefix) ==
    [ country_code |-> country_code,
      party_id |-> party_ids[1],
      id |-> prefix \o "0b8e4a5e",
      name |-> "Test Charging Station 1",
      address |-> "100 Test Street",
      postal_code |-> "10000",
      coordinates |-> [latitude |-> "25.0", longitude |-> "-125.0"],
      evse_uid |-> "EVSE0b8e4a5e",
      evse_id |-> "US*" \o party_ids[1] \o "*E100000",
      evse_coordinates |-> [latitude |-> "25.0", longitude |-> "-125.0"],
      physical_reference |-> "Bay 1",
      connector_id |-> "1",
      connector_tariff_id |-> "TRF0b8e4a5e",
      currency |-> currencies[1],
      max_excl_vat |-> "0.5",
      max_incl_vat |-> "0.6",
      energy_price |-> "0.2",
      energy_vat |-> "15.0",
      time_price |-> "0.05",
      time_vat |-> "15.0",
      kwh |-> "5.0",
      token_country_code |-> country_codes[1],
      token_party_id |-> party_ids[1],
      token_uid |-> "0b8e4a5e0000",
      contract_id |-> "CNT0b8e4a5e",
      authorization_reference |-> "AUTH0b8e4a5e",
      location_id |-> "LOC0b8e4a5e",
      meter_id |-> "MTR0b8e4a5e",
      energy_volume |-> "10.0",
      time_volume |-> "30.0",
      period_tariff_id |-> "TRF0b8e4a5e",
      total_excl_vat |-> "5.0",
      total_incl_vat |-> "6.0" ]

\* The draws of the modelled runs, one country_code for each of the seven
\* objects: every object draws the first code, or the objects draw the
\* codes in turn.
FactoryDraws ==
    { [ locations |-> [i \in 1..3 |-> Drawn(code[i], "LOC")],
        tariffs |-> [i \in 1..2 |-> Drawn(code[3 + i], "TRF")],
        sessions |-> [i \in 1..2 |-> Drawn(code[5 + i], "SES")] ] :
        code \in { [i \in 1..7 |-> country_codes[1]],
                   [i \in 1..7 |-> country_codes[((i - 1) % Len(country_codes)) + 1]] } }

MockCPOCrud_get(module, id) ==
    \E reads \in ClockReads(now), drawn \in FactoryDraws :
        \E instance \in {MockCPOCrud(reads, drawn)} :
            \E outcome \in {MockCPOCrud_get_outcome(instance, module, id)} :
                MockReturn("get", module, id, reads[ReadsOfInit], outcome)

MockCPOCrud_list(module, filters) ==
    \E reads \in ClockReads(now), drawn \in FactoryDraws :
        \E instance \in {MockCPOCrud(reads, drawn)} :
            \E outcome \in {MockCPOCrud_list_outcome(instance, module,
                                                      filters)} :
                MockReturn("list", module, "", reads[ReadsOfInit], outcome)

MockCPOCrud_create(module, data) ==
    \E reads \in ClockReads(now), drawn \in FactoryDraws, uuid \in UuidPool :
        \E instance \in {MockCPOCrud(reads, drawn)} :
            \E outcome \in {MockCPOCrud_create_outcome(
                                instance, reads[ReadsOfInit + 1],
                                module, data, uuid)} :
                MockReturn("create", module, outcome.data["id"],
                           reads[ReadsOfInit + 1], outcome)

MockCPOCrud_update(module, data, id) ==
    \E reads \in ClockReads(now), drawn \in FactoryDraws :
        \E instance \in {MockCPOCrud(reads, drawn)} :
            \E outcome \in {MockCPOCrud_update_outcome(
                                instance, reads[ReadsOfInit + 1],
                                module, data, id)} :
                MockReturn("update", module, id,
                           IF outcome.value = "None" THEN reads[ReadsOfInit]
                           ELSE reads[ReadsOfInit + 1],
                           outcome)

MockCPOCrud_delete(module, id) ==
    \E reads \in ClockReads(now), drawn \in FactoryDraws :
        \E instance \in {MockCPOCrud(reads, drawn)} :
            \E outcome \in {MockCPOCrud_delete_outcome(instance, module,
                                                        id)} :
                MockReturn("delete", module, id, reads[ReadsOfInit], outcome)

----------------------------------------------------------------------------
(* Specifications *)

Init ==
    /\ tokens_a = InitTokensA
    /\ tokens_c = InitTokensC
    /\ auth_ret = [op |-> "none", token |-> None, value |-> "None"]
    /\ storage = [key \in StorageKeys |-> EmptyDict]
    /\ now = 0
    /\ shared = {}
    /\ crud_ret = [op |-> "none", exc |-> "", data |-> NoData]
    /\ requests = << >>
    /\ running = 0
    /\ serial = << >>
    /\ settings = [COMMAND_AWAIT_TIME |-> COMMAND_AWAIT_TIME]
    /\ mock_ret = [op |-> "none"]

\* The data argument of a create: a dict of the caller's own with one of
\* the values of `inputs`, or a dict a place of the store holds (a dict
\* passed to or returned by an earlier call, which the caller still has).
\* The modelled callers pass a stored dict again while its id is usable.
CreateArgs(inputs) ==
    { [data |-> data, src |-> NoPlace] : data \in inputs }
    \cup { [data |-> DictGet(storage[src[1]], src[2]), src |-> src] :
             src \in { place \in Places(storage) :
                          Truthy(DataId(DictGet(storage[place[1]],
                                                place[2]))) } }

AuthNext ==
    \E token \in TokenStrings :
        \/ add_token_a(token)
        \/ add_token_c(token)
        \/ remove_token_a(token)
        \/ remove_token_c(token)

\* The bodies of the updates of the module store alone: a partial one and
\* an object echoed from an earlier response, which carries an id.
UpdateInputs ==
    { data \in DataInputs :
        \/ DOMAIN data = {"name"}
        \/ "last_updated" \in DOMAIN data }

CrudNext ==
    \/ \E module \in Modules, id \in LookupIds : get(module, id)
    \/ \E module \in Modules, arg \in CreateArgs(DataInputs) :
           create(module, arg.data, arg.src)
    \/ \E module \in Modules, data \in UpdateInputs, id \in LookupIds :
           update(module, data, id)
    \/ \E module \in Modules, id \in LookupIds : delete(module, id)
    \/ Tick

Next == AuthNext \/ CrudNext

\* The token store alone.
AuthSpec == Init /\ [][AuthNext]_vars

\* The module store alone.
CrudSpec == Init /\ [][CrudNext]_vars

\* How many objects the stores that list is called on hold, besides the
\* sizes around the default page size and around 200.
MaxRecords == 3

StoreSizes == (0..MaxRecords) \cup {50, 51, 200, 201}

\* offset and limit of a list request; a request may carry no limit.
MaxOffset == 2

Offsets == (0..MaxOffset) \cup {50, 51, 200}

MaxLimit == 2

Limits == (0..MaxLimit) \cup {50, 51, 200, 201}

\* date_from and date_to of a list request, as instants of the clock.
Dates == {0, 1}

\* The filters dict of a list request: any of the four keys may be missing.
FilterInputs ==
    { [f \in fs |-> CASE f = "offset" -> o
                     [] f = "limit" -> l
                     [] f = "date_from" -> df
                     [] f = "date_to" -> dt] :
        fs \in SUBSET {"offset", "limit", "date_from", "date_to"},
        o \in Offsets, l \in Limits, df \in Dates, dt \in Dates }

\* The instant the k-th object of a populated store was last written.
StampOf(k) == IF k <= 1 THEN 0 ELSE 1

\* The module dict after n creates with the ids LOC1, LOC2, ...
Populated(n) ==
    [k \in 1..n |->
        [k |-> "LOC" \o ToString(k),
         v |-> [id |-> "LOC" \o ToString(k),
                last_updated |-> isoformat(StampOf(k))]]]

\* A store some sequence of creates has filled.
ListInit ==
    /\ tokens_a = InitTokensA
    /\ tokens_c = InitTokensC
    /\ auth_ret = [op |-> "none", token |-> None, value |-> "None"]
    /\ \E n \in StoreSizes, c \in 0..1 :
           /\ storage = [key \in StorageKeys |->
                            CASE key = "locations" -> Populated(n)
                              [] key = "charging_profiles" -> Populated(c)
                              [] OTHER -> EmptyDict]
           /\ now = StampOf(n)
    /\ shared = {}
    /\ crud_ret = [op |-> "none", exc |-> "", data |-> NoData]
    /\ requests = << >>
    /\ running = 0
    /\ serial = << >>
    /\ settings = [COMMAND_AWAIT_TIME |-> COMMAND_AWAIT_TIME]
    /\ mock_ret = [op |-> "none"]

ListNext ==
    \E module \in Modules, filters \in FilterInputs : list(module, filters)

\* Paging through a filled store.
ListSpec == ListInit /\ [][ListNext]_vars

\* The payloads of the store-wide runs: with or without an id, each in a
\* dict of the caller's own.
IdData == { data \in DataInputs : DOMAIN data \subseteq {"id"} }

\* The filters of the store-wide runs.
PageFilters ==
    { filters \in FilterInputs :
        /\ DOMAIN filters \subseteq {"offset", "limit"}
        /\ \A f \in DOMAIN filters : filters[f] \in 0..1 }

\* The keyword arguments of a do call.
KwargsInputs ==
    { [f \in {} |-> ""],
      [token |-> "emsp_token_a_12345"],
      [token |-> "new_token"],
      [token |-> "emsp_token_a_12345", location |-> "TEST001"] }

\* The data of a do call: none (the default None, here a dict without
\* fields), a complete command payload or one whose location_id is empty.
DoData ==
    {NoData} \cup { payload \in PayloadInputs :
                     /\ payload.evse_uid # ""
                     /\ payload.connector_id # ""
                     /\ payload.token # "" }

\* The actions of the store-wide runs: every member, by its value spelled
\* with "-" (the value that is not the name of the member).
DoActions == Actions \ DOMAIN Action

DoNext ==
    \E action \in DoActions, data \in DoData, kwargs \in KwargsInputs :
        do("commands", action, data, kwargs)

StoreNext ==
    \/ \E module \in Modules, id \in LookupIds : get(module, id)
    \/ \E module \in Modules, data \in IdData :
           create(module, data, NoPlace)
    \/ \E module \in Modules, data \in IdData, id \in LookupIds :
           update(module, data, id)
    \/ \E module \in Modules, id \in LookupIds : delete(module, id)
    \/ \E module \in Modules, filters \in PageFilters : list(module, filters)
    \/ DoNext
    \/ Tick

\* Every operation of EMSPCrud on one store.
StoreSpec == Init /\ [][StoreNext]_vars

\* The calls of the requests in flight, all on the location TEST001: a
\* create carries the id, an update a partial body or an echoed object.
Calls ==
    { [op |-> "create", data |-> data] :
        data \in { d \in DataInputs : DataId(d) \in SuppliedIds } }
    \cup { [op |-> "update", data |-> data] :
             data \in { d \in DataInputs :
                          "id" \notin DOMAIN d \/ "last_updated" \in DOMAIN d } }
    \cup { [op |-> "delete", data |-> NoData] }

ConcNext ==
    \/ \E slot \in Slots, call \in Calls, id \in SuppliedIds :
           Arrive(slot, call.op, "locations", call.data, id)
    \/ \E slot \in Slots : Step(slot)
    \/ Tick

\* The state at import, with a slot for every request that will arrive
\* and the history of the calls started.
ConcInit ==
    /\ tokens_a = InitTokensA
    /\ tokens_c = InitTokensC
    /\ auth_ret = [op |-> "none", token |-> None, value |-> "None"]
    /\ storage = [key \in StorageKeys |-> EmptyDict]
    /\ now = 0
    /\ shared = {}
    /\ crud_ret = [op |-> "none", exc |-> "", data |-> NoData]
    /\ requests = [slot \in Slots |-> Idle]
    /\ running = 0
    /\ serial = [storage |-> storage, exc |-> "", data |-> NoData,
                 applied |-> 0]
    /\ settings = [COMMAND_AWAIT_TIME |-> COMMAND_AWAIT_TIME]
    /\ mock_ret = [op |-> "none"]

\* create, update and delete of several requests in flight on one object.
ConcSpec == ConcInit /\ [][ConcNext]_vars

\* The seconds a caller waits in one piece: the await window of a command.
Waits == { COMMAND_AWAIT_TIME }

\* The calls on the commands of the backend: every action of do, the
\* look-up, listing, filing, change and deletion of commands, and time
\* passing between the calls.
CommandNext ==
    \/ DoNext
    \/ \E id \in LookupIds : get("commands", id)
    \/ \E filters \in PageFilters : list("commands", filters)
    \/ \E data \in IdData : create("commands", data, NoPlace)
    \/ \E data \in IdData, id \in LookupIds : update("commands", data, id)
    \/ \E id \in LookupIds : delete("commands", id)
    \/ Tick
    \/ \E seconds \in Waits : Elapse(seconds)

\* The commands of the backend while time passes.
CommandSpec == Init /\ [][CommandNext]_vars

\* The values COMMAND_AWAIT_TIME is configured to: the default and another.
AwaitTimes == { COMMAND_AWAIT_TIME, 60 }

\* The state at import with COMMAND_AWAIT_TIME taken from the environment.
ConfigInit ==
    /\ tokens_a = InitTokensA
    /\ tokens_c = InitTokensC
    /\ auth_ret = [op |-> "none", token |-> None, value |-> "None"]
    /\ storage = [key \in StorageKeys |-> EmptyDict]
    /\ now = 0
    /\ shared = {}
    /\ crud_ret = [op |-> "none", exc |-> "", data |-> NoData]
    /\ requests = << >>
    /\ running = 0
    /\ serial = << >>
    /\ \E seconds \in AwaitTimes : settings = [COMMAND_AWAIT_TIME |-> seconds]
    /\ mock_ret = [op |-> "none"]

\* Every operation of EMSPCrud under every configuration.
ConfigSpec == ConfigInit /\ [][StoreNext]_vars

\* The ids the calls of the mock ask for: every id the mock is seeded
\* with and one it is not.
MockIds ==
    { "LOC001", "LOC002", "LOC003", "TRF001", "TRF002", "SES001", "SES002" }
    \cup SuppliedIds

\* The bodies sent to the mock: those sent to the backend, and one under
\* an id the mock is seeded with.
MockDataInputs == DataInputs \cup { [id |-> "LOC001", name |-> n] : n \in Names }

\* The bodies of the updates sent to the mock: a partial body, alone and
\* with an id the mock is seeded with.
MockUpdateInputs ==
    { data \in MockDataInputs :
        /\ "name" \in DOMAIN data
        /\ "id" \in DOMAIN data => data["id"] = "LOC001" }

\* The filters of a list call of the mock: none, a field every seeded
\* object carries with the value the mock sets, with a value no object has
\* and with a value the factory draws.
MockFilters ==
    { NoData, [id |-> "LOC001"], [party_id |-> "EMS"],
      [country_code |-> country_codes[2]] }

MockNext ==
    \/ \E module \in MockModules, id \in MockIds :
           MockCPOCrud_get(module, id)
    \/ \E module \in MockModules, filters \in MockFilters :
           MockCPOCrud_list(module, filters)
    \/ \E module \in MockModules, data \in MockDataInputs :
           MockCPOCrud_create(module, data)
    \/ \E module \in MockModules, data \in MockUpdateInputs, id \in MockIds :
           MockCPOCrud_update(module, data, id)
    \/ \E module \in MockModules, id \in MockIds :
           MockCPOCrud_delete(module, id)
    \/ Tick

\* Calls of the mock CPO, in any order.
MockSpec == Init /\ [][MockNext]_vars

\* The whole backend.
Spec == Init /\ [][Next]_vars

----------------------------------------------------------------------------
(* Properties of the token store (checked under AuthSpec) *)

Members == Range(tokens_a) \cup Range(tokens_c)

\* The step is the call `step` of the authenticator method `op`.
IsCall(op, step) == auth_ret'.op = op /\ step

\* The step is the call `step` of the EMSPCrud method `op`.
IsCrudCall(op, step) == crud_ret'.op = op /\ step

\* C1: in every reachable state is_token_valid(t) is true exactly for the
\* tokens that are at that moment in the Token-A list or the Token-C list.
C1_ValidIffMember ==
    \A t \in TokenQueries : is_token_valid(t) <=> t \in Members

\* C1 witness: a token added later is valid and a removed initial token is
\* not.
C1_Witness ==
    /\ is_token_valid("new_token")
    /\ ~is_token_valid("emsp_token_a_12345")
    /\ "new_token" \notin Range(InitTokensA) \cup Range(InitTokensC)

\* C2 (as claimed): None and "" are invalid in every reachable state, and a
\* whitespace-padded variant of a member token is invalid unless the padded
\* string was itself added.
C2_NullEmptyPaddedInvalid ==
    /\ ~is_token_valid(None)
    /\ ~is_token_valid("")
    /\ \A t \in Members :
           Padded(t) \notin Members => ~is_token_valid(Padded(t))

\* C3 (as claimed): no token string is in the Token-A list and the Token-C
\* list at the same time.
C3_ClassesDisjoint == Range(tokens_a) \cap Range(tokens_c) = {}

ValidAsA(t) == is_token_valid(t) /\ get_token_info(t).type = "TOKEN_A"

\* C4: right after add_token_a(t) the token t is valid and classified
\* TOKEN_A, and it stays so over every step that is not remove_token_a(t).
C4_AddedStaysValidA ==
    /\ [](auth_ret.op = "add_token_a" => ValidAsA(auth_ret.token))
    /\ [][\A t \in TokenStrings :
            (ValidAsA(t) /\ ~IsCall("remove_token_a", remove_token_a(t)))
                => ValidAsA(t)']_vars

\* C4 witness: new_token was added to both classes and then removed from
\* class C; it is still valid and classified TOKEN_A.
C4_Witness ==
    /\ auth_ret = [op |-> "remove_token_c", token |-> "new_token",
                   value |-> "True"]
    /\ ValidAsA("new_token")

NoDuplicates(tokens) == \A t \in Range(tokens) : Count(tokens, t) = 1

\* C5: no list ever holds a token twice; an add leaves exactly one
\* occurrence of its token, loses no other token, leaves the other list
\* alone, and changes nothing when the token was already there.
C5_AddIdempotent ==
    /\ [](NoDuplicates(tokens_a) /\ NoDuplicates(tokens_c))
    /\ [][\A t \in TokenStrings :
            /\ IsCall("add_token_a", add_token_a(t)) =>
                 /\ Count(tokens_a', t) = 1
                 /\ Range(tokens_a') = Range(tokens_a) \cup {t}
                 /\ Contains(tokens_a, t) => tokens_a' = tokens_a
                 /\ tokens_c' = tokens_c
            /\ IsCall("add_token_c", add_token_c(t)) =>
                 /\ Count(tokens_c', t) = 1
                 /\ Range(tokens_c') = Range(tokens_c) \cup {t}
                 /\ Contains(tokens_c, t) => tokens_c' = tokens_c
                 /\ tokens_a' = tokens_a]_vars

\* C5 witness: add_token_a of a token that never left the list has run and
\* the list is what it was.
C5_Witness ==
    /\ auth_ret.op = "add_token_a"
    /\ auth_ret.token = "emsp_token_a_12345"
    /\ tokens_a = InitTokensA

\* C6 (as claimed): the value an add returns tells whether the token was
\* newly added.
C6_AddTellsNew ==
    [][\A t \in TokenStrings :
         /\ IsCall("add_token_a", add_token_a(t)) =>
              (auth_ret'.value = "True" <=> ~Contains(tokens_a, t))
         /\ IsCall("add_token_c", add_token_c(t)) =>
              (auth_ret'.value = "True" <=> ~Contains(tokens_c, t))]_vars

\* C7: remove_token_a(t) returns True exactly when t was in the Token-A
\* list; afterwards t is not in it, every other member still is, and the
\* Token-C list is untouched; a remove of an absent token returns False and
\* changes no list.  The same for remove_token_c.
C7_RemoveFrame ==
    [][\A t \in TokenStrings :
         /\ IsCall("remove_token_a", remove_token_a(t)) =>
              /\ auth_ret'.value = (IF Contains(tokens_a, t)
                                    THEN "True" ELSE "False")
              /\ ~Contains(tokens_a', t)
              /\ Range(tokens_a') = Range(tokens_a) \ {t}
              /\ Len(tokens_a') = Len(tokens_a) - Count(tokens_a, t)
              /\ tokens_c' = tokens_c
              /\ ~Contains(tokens_a, t) => tokens_a' = tokens_a
         /\ IsCall("remove_token_c", remove_token_c(t)) =>
              /\ auth_ret'.value = (IF Contains(tokens_c, t)
                                    THEN "True" ELSE "False")
              /\ ~Contains(tokens_c', t)
              /\ Range(tokens_c') = Range(tokens_c) \ {t}
              /\ Len(tokens_c') = Len(tokens_c) - Count(tokens_c, t)
              /\ tokens_a' = tokens_a
              /\ ~Contains(tokens_c, t) => tokens_c' = tokens_c]_vars

\* C7 witness: an initial Token-A member was removed with result True while
\* the other initial members are still listed.
C7_Witness ==
    /\ auth_ret = [op |-> "remove_token_a", token |-> "emsp_token_a_12345",
                   value |-> "True"]
    /\ ~Contains(tokens_a, "emsp_token_a_12345")
    /\ Contains(tokens_a, "emsp_token_a_67890")
    /\ Contains(tokens_a, "emsp_development_token_a")

\* C8: get_token_info returns one of the three types; UNKNOWN with
\* valid = False exactly for tokens in neither list, otherwise a class whose
\* list holds the token with valid = True; valid equals is_token_valid.
C8_ClassifyTotal ==
    \A t \in TokenQueries :
        LET info == get_token_info(t)
        IN  /\ info.type \in {"TOKEN_A", "TOKEN_C", "UNKNOWN"}
            /\ (info.type = "UNKNOWN") <=> (t \notin Members)
            /\ info.type = "UNKNOWN" => ~info.valid
            /\ info.type = "TOKEN_A" => info.valid /\ t \in Range(tokens_a)
            /\ info.type = "TOKEN_C" => info.valid /\ t \in Range(tokens_c)
            /\ info.valid = is_token_valid(t)

\* C8 witness: the three answers occur together, TOKEN_A for a token that
\* is in both lists.
C8_Witness ==
    /\ Contains(tokens_c, "cpo_token_c_abcdef")
    /\ get_token_info("cpo_token_c_abcdef").type = "TOKEN_A"
    /\ get_token_info("new_token").type = "TOKEN_C"
    /\ get_token_info("emsp_token_a_12345").type = "UNKNOWN"
    /\ get_token_info(None).type = "UNKNOWN"

----------------------------------------------------------------------------
(* Properties of the module store (checked under CrudSpec) *)

\* C9: create followed by get of the id create returned yields the record
\* create returned: filed under that id, carrying last_updated (the instant
\* of the call), the payload sent, and the id supplied or else generated.
C9_CreateThenGet ==
    \A m \in Modules, arg \in CreateArgs(DataInputs) :
        \A uuid \in IF Truthy(DataId(arg.data)) THEN {None} ELSE UuidPool :
          \A outcome \in {create_outcome(storage, shared, now, m, arg.data,
                                         arg.src, uuid)} :
            \A g \in {StoreGet(outcome.storage, m, outcome.data["id"])} :
            LET r == outcome.data
                d == arg.data
            IN  /\ outcome.exc = ""
                /\ g.exc = ""
                /\ g.data = r
                /\ "last_updated" \in DOMAIN r
                /\ r["last_updated"] = isoformat(now)
                /\ IF Truthy(DataId(d))
                   THEN r["id"] = d["id"]
                   ELSE r["id"] = uuid
                /\ \A f \in (DOMAIN d) \ {"id", "last_updated"} :
                       f \in DOMAIN r /\ r[f] = d[f]

\* C9 witness: a create without a usable id has filed a named object under
\* a generated id in charging_profiles, where get finds it.
C9_Witness ==
    /\ crud_ret.op = "create"
    /\ crud_ret.data["id"] \in UuidPool
    /\ "name" \in DOMAIN crud_ret.data
    /\ StoreGet(storage, "charging_profile", crud_ret.data["id"]).data
           = crud_ret.data
    /\ now > 0

\* C10: get, update and delete of an id the module does not hold raise
\* NotFoundOCPIError and leave the whole store as it was.
C10_AbsentIdNotFound ==
    [][\A m \in Modules, i \in LookupIds :
         ~HasKey(storage[get_storage_key(m)], i) =>
             /\ IsCrudCall("get", get(m, i)) =>
                  crud_ret'.exc = "NotFoundOCPIError" /\ storage' = storage
             /\ IsCrudCall("delete", delete(m, i)) =>
                  crud_ret'.exc = "NotFoundOCPIError" /\ storage' = storage
             /\ \A d \in DataInputs :
                  IsCrudCall("update", update(m, d, i)) =>
                      /\ crud_ret'.exc = "NotFoundOCPIError"
                      /\ storage' = storage]_vars

\* C10 witness: an update of an absent id was refused while the store held
\* objects in both modules.
C10_Witness ==
    /\ crud_ret.op = "update"
    /\ crud_ret.exc = "NotFoundOCPIError"
    /\ Len(storage["locations"]) > 0
    /\ Len(storage["charging_profiles"]) > 0

\* Going from the store `before` to the store `after`, nothing but the
\* entry under (module, id) has changed.
OthersUntouched(before, after, module, id) ==
    LET storage_key == get_storage_key(module)
    IN  /\ \A key \in StorageKeys \ {storage_key} : after[key] = before[key]
        /\ DictKeys(after[storage_key]) \ {id}
               = DictKeys(before[storage_key]) \ {id}
        /\ \A j \in DictKeys(before[storage_key]) \ {id} :
               DictGet(after[storage_key], j) = DictGet(before[storage_key], j)

\* Going from the store `before` to the store `after`, every key is still
\* there and no place other than `places` has changed its object.
OtherObjectsUntouched(before, after, places) ==
    \A key \in StorageKeys :
        /\ Len(after[key]) = Len(before[key])
        /\ \A j \in 1..Len(before[key]) :
               /\ after[key][j].k = before[key][j].k
               /\ <<key, before[key][j].k>> \notin places
                      => after[key][j] = before[key][j]

\* C11 (as claimed): in every reachable state, an update of an existing id
\* keeps every field that is not a key of the partial, gives every field of
\* the partial the supplied value, and refreshes last_updated.
C11_UpdateMergesAsClaimed ==
    \A m \in Modules, i \in LookupIds, d \in DataInputs :
        HasKey(storage[get_storage_key(m)], i) =>
            LET outcome == update_outcome(storage, shared, now, m, d, i)
                old == DictGet(storage[get_storage_key(m)], i)
                new == DictGet(outcome.storage[get_storage_key(m)], i)
            IN  /\ outcome.exc = ""
                /\ \A f \in (DOMAIN old) \ (DOMAIN d \cup {"last_updated"}) :
                       f \in DOMAIN new /\ new[f] = old[f]
                /\ \A f \in DOMAIN d : f \in DOMAIN new /\ new[f] = d[f]
                /\ new["last_updated"] = isoformat(now)

\* C11 (amended): in every reachable state, an update of an existing id
\* succeeds, keeps every field that is not a key of the partial, gives
\* every field of the partial other than last_updated the supplied value,
\* sets last_updated to the instant of the call whether or not the partial
\* carries one, adds no other field, returns the merged record and touches
\* no other object of the store.
C11_UpdateMerges ==
    \A m \in Modules, i \in LookupIds, d \in DataInputs :
        HasKey(storage[get_storage_key(m)], i) =>
          \A outcome \in {update_outcome(storage, shared, now, m, d, i)},
             old \in {DictGet(storage[get_storage_key(m)], i)} :
            \A new \in {DictGet(outcome.storage[get_storage_key(m)], i)} :
                /\ outcome.exc = ""
                /\ HasKey(outcome.storage[get_storage_key(m)], i)
                /\ outcome.data = new
                /\ DOMAIN new = DOMAIN old \cup DOMAIN d \cup {"last_updated"}
                /\ \A f \in (DOMAIN old) \ (DOMAIN d \cup {"last_updated"}) :
                       new[f] = old[f]
                /\ \A f \in (DOMAIN d) \ {"last_updated"} : new[f] = d[f]
                /\ new["last_updated"] = isoformat(now)
                /\ OtherObjectsUntouched(
                       storage, outcome.storage,
                       SameObject(shared, <<get_storage_key(m), i>>))

\* C11 witness: an update whose partial carried no id went through at a
\* later instant on an object filed under a generated id; the object still
\* has that id and its name, and last_updated is the instant of the update.
C11_Witness ==
    /\ crud_ret.op = "update"
    /\ crud_ret.exc = ""
    /\ crud_ret.data["id"] \in UuidPool
    /\ "name" \in DOMAIN crud_ret.data
    /\ now > 0
    /\ crud_ret.data["last_updated"] = isoformat(now)

\* C12: delete of an existing id succeeds and removes that entry and no
\* other; on the store it leaves, a second delete and a get of the id raise
\* NotFoundOCPIError; and an id a module does not hold stays absent over
\* every step that is not a create filing an object under it.
C12_DeleteRemovesOne ==
    /\ [](\A m \in Modules, i \in LookupIds :
             HasKey(storage[get_storage_key(m)], i) =>
                 LET first == delete_outcome(storage, m, i)
                     second == delete_outcome(first.storage, m, i)
                 IN  /\ first.exc = ""
                     /\ ~HasKey(first.storage[get_storage_key(m)], i)
                     /\ OthersUntouched(storage, first.storage, m, i)
                     /\ second.exc = "NotFoundOCPIError"
                     /\ second.storage = first.storage
                     /\ StoreGet(first.storage, m, i).exc
                            = "NotFoundOCPIError")
    /\ [][\A m \in Modules, i \in LookupIds :
            (~HasKey(storage[get_storage_key(m)], i)
               /\ HasKey(storage'[get_storage_key(m)], i)) =>
                /\ crud_ret'.op = "create"
                /\ crud_ret'.data["id"] = i]_vars

\* C12 witness: a delete went through and left the module without
\* TEST001 while the object filed under a generated id is still there.
C12_Witness ==
    /\ crud_ret.op = "delete"
    /\ crud_ret.exc = ""
    /\ ~HasKey(storage["locations"], "TEST001")
    /\ \E u \in UuidPool : HasKey(storage["locations"], u)

----------------------------------------------------------------------------
(* Properties of list (checked under ListSpec) *)

\* The last call was list(module, filters): it returned what list returns
\* for these arguments on the store, which a list call leaves as it was.
Listed(module, filters) ==
    /\ crud_ret.op = "list"
    /\ crud_ret.data = list_outcome(storage, module, filters)

\* C13: on every store and for all filters with offset >= 0 and limit >= 0,
\* list returns at most limit objects (at most 50 when the filters carry no
\* limit), total_count is the number of objects of the module, and
\* is_last_page is true exactly when offset + the number of objects
\* returned >= total_count; the page is the stretch of the module's objects
\* that starts after the first offset ones, cut short only by the limit or
\* by the end of the module.
C13_PageWithinLimit ==
    \A m \in Modules, filters \in FilterInputs :
        Listed(m, filters) =>
            LET page == crud_ret.data
                offset == IF "offset" \in DOMAIN filters
                          THEN filters["offset"] ELSE 0
                L == IF "limit" \in DOMAIN filters
                     THEN filters["limit"] ELSE 50
                returned == Len(page.objects_list)
                held == DictValues(storage[get_storage_key(m)])
            IN  /\ returned <= L
                /\ page.total_count = Len(held)
                /\ page.is_last_page
                       <=> (offset + returned >= page.total_count)
                /\ \A k \in 1..returned :
                       page.objects_list[k] = held[offset + k]
                /\ returned = L \/ offset + returned >= Len(held)

\* C13 witness: a list call on 51 locations returned a page of 50 that is
\* not the last one, as a call without limit does.
C13_Witness ==
    /\ crud_ret.op = "list"
    /\ Len(crud_ret.data.objects_list) = 50
    /\ crud_ret.data.total_count = 51
    /\ ~crud_ret.data.is_last_page
    /\ Listed("locations", [offset |-> 0])

\* C14 (as claimed): one list call never returns more than 200 objects.
C14_PageSizeCapped ==
    crud_ret.op = "list" => Len(crud_ret.data.objects_list) <= 200

\* last_updated of the object lies between date_from and date_to, where
\* the filters carry them (both ends counted in).
InDateRange(object, filters) ==
    /\ "date_from" \in DOMAIN filters =>
           filters["date_from"] <= fromisoformat(object["last_updated"])
    /\ "date_to" \in DOMAIN filters =>
           fromisoformat(object["last_updated"]) <= filters["date_to"]

\* C15 (as claimed): with date_from and/or date_to in the filters, every
\* object list returns has last_updated inside the range, and total_count
\* and is_last_page are those of the objects that pass the filter.
C15_DateFiltered ==
    \A m \in Modules, filters \in FilterInputs :
        Listed(m, filters) =>
            LET page == crud_ret.data
                offset == IF "offset" \in DOMAIN filters
                          THEN filters["offset"] ELSE 0
                held == DictValues(storage[get_storage_key(m)])
                passing == Cardinality({ k \in 1..Len(held) :
                                           InDateRange(held[k], filters) })
            IN  /\ \A k \in 1..Len(page.objects_list) :
                       InDateRange(page.objects_list[k], filters)
                /\ page.total_count = passing
                /\ page.is_last_page
                       <=> (offset + Len(page.objects_list) >= passing)

----------------------------------------------------------------------------
(* Properties of the store under every operation (checked under StoreSpec) *)

\* C16: an object is only removed by a delete of its id: get succeeds on
\* every id a module holds, and an id a module holds is still held after
\* every step (create, update, delete, list, do, get on any id or module,
\* or time passing) except a successful delete of that id in that module.
C16_NoImplicitDelete ==
    /\ [](\A m \in Modules, i \in LookupIds :
             HasKey(storage[get_storage_key(m)], i) =>
                 StoreGet(storage, m, i).exc = "")
    /\ [][\A m \in Modules, i \in LookupIds :
            (HasKey(storage[get_storage_key(m)], i)
               /\ ~HasKey(storage'[get_storage_key(m)], i)) =>
                /\ crud_ret'.op = "delete"
                /\ crud_ret'.exc = ""
                /\ delete(m, i)]_vars

\* C16 witness: a do call has run and time has passed, and locations still
\* holds the object filed under TEST001 at instant 0 while charging_profiles
\* holds nothing.
C16_Witness ==
    /\ crud_ret.op = "do"
    /\ now > 0
    /\ HasKey(storage["locations"], "TEST001")
    /\ DictGet(storage["locations"], "TEST001")["last_updated"] = isoformat(0)
    /\ Len(storage["charging_profiles"]) = 0

\* C18 (as claimed): a send of a command returns a command id, an immediate
\* result ACCEPTED or REJECTED and the timeout, and leaves an entry for that
\* id in state PENDING with deadline now + timeout among the commands.
C18_SendRegistersPending ==
    (crud_ret.op = "do" /\ crud_ret.action \in Action.send_command) =>
        /\ crud_ret.data["result"] \in {"ACCEPTED", "REJECTED"}
        /\ "timeout" \in DOMAIN crud_ret.data
        /\ \E f \in {"commandId", "command_id", "id"} \cap DOMAIN crud_ret.data :
               /\ HasKey(storage["commands"], crud_ret.data[f])
               /\ LET entry == DictGet(storage["commands"], crud_ret.data[f])
                  IN  /\ "state" \in DOMAIN entry
                      /\ entry["state"] = "PENDING"

----------------------------------------------------------------------------
(* Properties of requests in flight (checked under ConcSpec) *)

\* C17: when several requests in flight call create, update and delete on
\* the same module and id, then whenever the event loop is between two
\* handlers the store is the one the completed calls give when each is
\* applied in one piece, one after another in the order they ran, and the
\* call that ran last got the outcome it has in that sequence: no object
\* holds half of a call and no key is lost.
C17_SerialOutcome ==
    running = 0 =>
        /\ storage = serial.storage
        /\ serial.applied > 0 =>
               /\ crud_ret.exc = serial.exc
               /\ crud_ret.data = serial.data

\* An update arrived while a create on the same object was in flight; both
\* have run, the update last, and it changed the object the create stored.
C17_Witness ==
    /\ running = 0
    /\ \E a, b \in Slots :
           /\ requests[a].op = "create" /\ requests[a].pc = "done"
           /\ requests[b].op = "update" /\ requests[b].pc = "done"
           /\ requests[b].peers > 0
           /\ "name" \notin DOMAIN requests[a].data
    /\ crud_ret.op = "update"
    /\ crud_ret.exc = ""
    /\ HasKey(storage["locations"], "TEST001")
    /\ "name" \in DOMAIN DictGet(storage["locations"], "TEST001")

----------------------------------------------------------------------------
(* Properties of the commands sent (checked under CommandSpec) *)

\* The last call was a send of a command that the backend answered
\* ACCEPTED.
SentAccepted ==
    /\ crud_ret.op = "do"
    /\ crud_ret.action \in Action.send_command
    /\ crud_ret.data["result"] = "ACCEPTED"

\* The commands the store holds in one of `states`.
CommandsIn(store, states) ==
    { i \in 1..Len(store["commands"]) :
        /\ "state" \in DOMAIN store["commands"][i].v
        /\ store["commands"][i].v["state"] \in states }

----------------------------------------------------------------------------
(* Properties of the command send of EMSPCrud.do (checked under StoreSpec) *)

\* C22 (as claimed): a send_command whose payload has an empty location_id,
\* evse_uid or connector_id or an empty token reference is refused with
\* InvalidCommand, is not answered ACCEPTED and leaves the commands of the
\* store as they were.
C22_InvalidSendRejected ==
    [][\A data \in PayloadInputs, kwargs \in KwargsInputs,
          action \in Action.send_command :
           /\ ~ValidPayload(data)
           /\ crud_ret'.op = "do"
           /\ crud_ret'.action = action
           /\ do("commands", action, data, kwargs)
           => /\ crud_ret'.exc = "InvalidCommand"
              /\ crud_ret'.data # [result |-> "ACCEPTED",
                                   timeout |-> CommandTimeout,
                                   message |-> "Command accepted for processing"]
              /\ storage' = storage]_vars

\* C23 (as claimed): the timeout a command send or a charging-profile
\* action returns is the configured COMMAND_AWAIT_TIME, whatever value is
\* configured.
C23_TimeoutAsConfigured ==
    /\ crud_ret.op = "do"
    /\ crud_ret.action \in Action.send_command
                           \cup Action.send_get_chargingprofile
                           \cup Action.send_delete_chargingprofile
                           \cup Action.send_update_charging_profile
    => crud_ret.data["timeout"] = settings.COMMAND_AWAIT_TIME

\* C24 (as claimed): authorize answers ALLOWED, with a non-empty
\* authorization_reference, exactly when the token it is asked about is
\* valid in the token store, and NOT_ALLOWED with an empty reference
\* otherwise.
C24_AuthorizeByValidity ==
    (crud_ret.op = "do" /\ crud_ret.action \in Action.authorize_token)
    => LET decision == crud_ret.data
           token == decision["authorization_info"]["token"]
           reference == IF "authorization_reference" \in DOMAIN decision
                        THEN decision["authorization_reference"]
                        ELSE ""
       IN  IF is_token_valid(token)
           THEN decision["allowed"] = "ALLOWED" /\ reference # ""
           ELSE decision["allowed"] = "NOT_ALLOWED" /\ reference = ""

----------------------------------------------------------------------------
(* Properties of the store towards a peer (checked under StoreSpec) *)

\* The state of the peer relationship, read off the store: the handshake
\* ends by filing the peer's Credential in the module "credentials", and
\* no other step of the handshake leaves a trace in the backend.
PeerState ==
    IF Len(storage["credentials"]) > 0 THEN "REGISTERED" ELSE "UNREGISTERED"

\* C25 (as claimed, for the store): a get, list, create, update, delete or
\* do made while the peer is not REGISTERED fails with NotRegistered.
C25_StoreNeedsRegistration ==
    (crud_ret.op # "none" /\ PeerState # "REGISTERED")
    => crud_ret.exc = "NotRegistered"

----------------------------------------------------------------------------
(* Properties of removed tokens (checked under AuthSpec) *)

Removals == { "remove_token_a", "remove_token_c" }

\* C26 (as claimed, last sentence): a token that remove_token_a or
\* remove_token_c has removed is rejected afterwards: while the removal
\* that returned True is the last call on the token store, so that
\* nothing has added the token again, the token is in neither of the
\* lists a request is checked against and is_token_valid is False for it.
C26_RemovedIsRejected ==
    (auth_ret.op \in Removals /\ auth_ret.value = "True")
    => /\ ~Contains(get_valid_token_a, auth_ret.token)
       /\ ~Contains(get_valid_token_c, auth_ret.token)
       /\ ~is_token_valid(auth_ret.token)

----------------------------------------------------------------------------
(* Identity, replacement and paging of the module store *)

\* C27: in every module, the object filed under the key k carries the id k
\* (checked under CrudSpec, whose updates include payloads that carry an
\* id field of their own).
C27_KeyIsId ==
    \A storage_key \in StorageKeys :
        \A i \in 1..Len(storage[storage_key]) :
            DataId(storage[storage_key][i].v) = storage[storage_key][i].k

\* C28: create never fails.  When the id of the payload is already stored
\* in the module, the stored object is replaced wholesale: afterwards it
\* has the fields of the payload, id and last_updated and no others, the
\* payload's values, last_updated of the instant of the call, and the
\* module holds as many objects as before; when the id is new the module
\* holds exactly one object more.  This holds for a dict of the caller's
\* own and for a dict the store already holds; the number of objects of
\* the other modules does not change, a place that holds the dict passed
\* shows it as create completed it, and every other place keeps its
\* object.
C28_CreateReplaces ==
    \A module \in Modules, arg \in CreateArgs(DataInputs), uuid \in UuidPool :
      \A outcome \in {create_outcome(storage, shared, now, module, arg.data,
                                     arg.src, uuid)} :
        LET storage_key == get_storage_key(module)
            data == arg.data
            object_id == outcome.data["id"]
            before == storage[storage_key]
            after == outcome.storage[storage_key]
        IN  /\ outcome.exc = ""
            /\ HasKey(after, object_id)
            /\ \A other \in StorageKeys \ {storage_key} :
                   Len(outcome.storage[other]) = Len(storage[other])
            /\ \A place \in Places(storage) \ {<<storage_key, object_id>>} :
                   DictGet(outcome.storage[place[1]], place[2])
                       = IF /\ arg.src # NoPlace
                            /\ place \in SameObject(shared, arg.src)
                         THEN outcome.data
                         ELSE DictGet(storage[place[1]], place[2])
            /\ IF HasKey(before, object_id)
               THEN LET stored == DictGet(after, object_id)
                    IN  /\ Len(after) = Len(before)
                        /\ DOMAIN stored
                               = (DOMAIN data) \cup {"id", "last_updated"}
                        /\ \A f \in (DOMAIN data) \ {"id", "last_updated"} :
                               stored[f] = data[f]
                        /\ stored["id"] = object_id
                        /\ stored["last_updated"] = isoformat(now)
               ELSE Len(after) = Len(before) + 1

\* C28 witness: the last call was a create on the id TEST001 that was
\* already stored (the object kept its place ahead of a later one), sent
\* without a name after the clock had moved: the stored object has no
\* name and carries the new instant.
C28_Witness ==
    /\ crud_ret.op = "create"
    /\ crud_ret.exc = ""
    /\ crud_ret.data["id"] = "TEST001"
    /\ "name" \notin DOMAIN crud_ret.data
    /\ now > 0
    /\ crud_ret.data["last_updated"] = isoformat(now)
    /\ Len(storage["locations"]) = 2
    /\ storage["locations"][1] = [k |-> "TEST001", v |-> crud_ret.data]

\* The page sizes of a client that pages through a module.
PageLimits == { limit \in Limits : limit >= 1 }

\* The longest walk checked, in pages.
MaxPages == 5

\* The pages a client gets that calls list with the offsets offset,
\* offset + limit, ... on the store `store` until a page says it is the
\* last one; the client gives up after `calls` calls.
RECURSIVE Pages(_, _, _, _, _)
Pages(store, module, limit, offset, calls) ==
    LET page == list_outcome(store, module,
                             [offset |-> offset, limit |-> limit])
    IN  IF page.is_last_page \/ calls <= 1
        THEN <<page>>
        ELSE <<page>> \o Pages(store, module, limit, offset + limit,
                               calls - 1)

\* The objects of a sequence of pages, in the order they were returned.
RECURSIVE Returned(_)
Returned(pages) ==
    IF pages = << >> THEN << >>
    ELSE Head(pages).objects_list \o Returned(Tail(pages))

\* C29: with no write in between, the pages at the offsets 0, L, 2L, ...
\* (L >= 1) end with a page whose is_last_page is true, no earlier page
\* says so, and together they hold every object of the module exactly
\* once, in the order of the module (checked for the modules that take at
\* most MaxPages pages of L).
C29_PagesCoverOnce ==
    \A module \in Modules, limit \in PageLimits :
        LET held == DictValues(storage[get_storage_key(module)])
            pages == Pages(storage, module, limit, 0, MaxPages + 1)
        IN  Len(held) <= limit * MaxPages =>
            /\ pages[Len(pages)].is_last_page
            /\ \A k \in 1..(Len(pages) - 1) : ~pages[k].is_last_page
            /\ Returned(pages) = held
            /\ \A i, j \in 1..Len(held) :
                   held[i]["id"] = held[j]["id"] => i = j

\* C29 witness: a client has just read the first page (two of three
\* locations; not the last page).  Were LOC1 deleted before it asks for
\* the page at offset 2, that page would be empty and the last, and LOC3
\* would never be returned; were LOC1 created again after that delete, the
\* page at offset 2 would return LOC1 a second time.
C29_Witness ==
    /\ Listed("locations", [offset |-> 0, limit |-> 2])
    /\ Len(storage["locations"]) = 3
    /\ ~crud_ret.data.is_last_page
    /\ Len(Pages(storage, "locations", 2, 0, 4)) = 2
    /\ LET first == crud_ret.data.objects_list
           deleted == delete_outcome(storage, "locations", "LOC1").storage
           skipping == list_outcome(deleted, "locations",
                                    [offset |-> 2, limit |-> 2])
           recreated == create_outcome(deleted, {}, now, "locations",
                                       [id |-> "LOC1"], NoPlace, "").storage
           repeating == list_outcome(recreated, "locations",
                                     [offset |-> 2, limit |-> 2])
       IN  /\ skipping.objects_list = << >>
           /\ skipping.is_last_page
           /\ \A k \in 1..Len(first) : first[k]["id"] # "LOC3"
           /\ first[1]["id"] = "LOC1"
           /\ Len(repeating.objects_list) = 1
           /\ repeating.objects_list[1]["id"] = "LOC1"

----------------------------------------------------------------------------
(* Properties of the mock CPO (checked under MockSpec) *)

\* The ids the mock is seeded with, by module.
SeededIds ==
    [ locations |-> { "LOC001", "LOC002", "LOC003" },
      tariffs |-> { "TRF001", "TRF002" },
      sessions |-> { "SES001", "SES002" } ]

\* what a get of the mock returns when the instance it builds is `instance`
LaterGet(instance, module, id) ==
    MockCPOCrud_get_outcome(instance, module, id)

\* what a list of the mock returns on such an instance
LaterList(instance, module, filters) ==
    MockCPOCrud_list_outcome(instance, module, filters)

\* C30: the mock keeps no write.  After any sequence of calls, get(module,
\* id) returns an object exactly when id is one of the ids the module is
\* seeded with, and that object carries the seeded id; the object a create
\* returned is returned by no later get or list; a seeded object that was
\* deleted, or updated with another name, is returned as seeded; a get or
\* update of a missing id returns None and a delete of it returns False.
C30_MockKeepsNothing ==
    \A reads \in ClockReads(now), drawn \in FactoryDraws :
      \A instance \in {MockCPOCrud(reads, drawn)} :
        /\ \A module \in MockModules :
            /\ \A id \in MockIds :
                   LET later == LaterGet(instance, module, id)
                   IN  /\ later.value = "object" <=> id \in SeededIds[module]
                       /\ later.value = "object" => later.data["id"] = id
                       /\ later.value = "None" <=> id \notin SeededIds[module]
                       /\ id \notin SeededIds[module] =>
                          /\ \A data \in MockDataInputs :
                                 MockCPOCrud_update_outcome(
                                     instance, reads[ReadsOfInit + 1],
                                     module, data, id).value = "None"
                          /\ MockCPOCrud_delete_outcome(
                                 instance, module, id).value = "False"
            /\ { obj["id"] : obj \in Range(LaterList(instance, module,
                                                     NoData).data) }
                   = SeededIds[module]
            /\ mock_ret.op = "create" =>
                   /\ \A id \in MockIds \cup UuidPool :
                          LaterGet(instance, module, id).data # mock_ret.data
                   /\ \A filters \in MockFilters :
                          \A obj \in Range(LaterList(instance, module,
                                                     filters).data) :
                              obj # mock_ret.data
        /\ (mock_ret.op = "delete" /\ mock_ret.value = "True") =>
               LaterGet(instance, mock_ret.module, mock_ret.id).value
                   = "object"
        /\ (/\ mock_ret.op = "update"
            /\ mock_ret.value = "object"
            /\ "name" \in DOMAIN mock_ret.data
            /\ mock_ret.data["name"] \in Names) =>
               LET later == LaterGet(instance, mock_ret.module, mock_ret.id)
               IN  /\ later.value = "object"
                   /\ "name" \in DOMAIN later.data
                          => later.data["name"] \notin Names
        /\ mock_ret.op \in { "get", "update" } =>
               (mock_ret.value = "None"
                    <=> mock_ret.id \notin SeededIds[mock_ret.module])
        /\ mock_ret.op = "delete" =>
               (mock_ret.value = "False"
                    <=> mock_ret.id \notin SeededIds[mock_ret.module])

\* C30 witness: the last call deleted the seeded location LOC001 from the
\* instance it had built (which holds two locations now) while the clock
\* went on, and a get of LOC001 still returns it.
C30_Witness ==
    /\ mock_ret.op = "delete"
    /\ mock_ret.value = "True"
    /\ mock_ret.module = "locations"
    /\ mock_ret.id = "LOC001"
    /\ Len(mock_ret.instance["locations"]) = 2
    /\ ~HasKey(mock_ret.instance["locations"], "LOC001")
    /\ now >= ReadsOfInit - 1
    /\ \A reads \in ClockReads(now), drawn \in FactoryDraws :
           LaterGet(MockCPOCrud(reads, drawn), "locations", "LOC001").value
               = "object"

====
